---- MODULE Spec2Model ----
(***************************************************************************)
(* Block-based editing system of the ECES Barometer (src/block_system.py): *)
(* the block model, the height estimator, the pagination planner, the      *)
(* BlockManager operations and the LaTeX parser's tier selection.          *)
(***************************************************************************)
EXTENDS Integers, Sequences, FiniteSets, TLC

(***************************************************************************)
(* Bounds of the model.                                                    *)
(***************************************************************************)
\* Longest block sequence a manager is driven to.
MaxBlocks == 3

(***************************************************************************)
(* Python values.                                                          *)
(***************************************************************************)
\* Optional[T]: None, or a value.
None == [some |-> FALSE]
Some(v) == [some |-> TRUE, v |-> v]

\* Content payloads, tagged by their Python type.
NoneContent == [kind |-> "none", val |-> "None"]
Str(s) == [kind |-> "str", val |-> s]
List(items) == [kind |-> "list", val |-> items]
Dict(d) == [kind |-> "dict", val |-> d]

\* isinstance(x, list), isinstance(x, dict)
IsList(x) == x.kind = "list"
IsDict(x) == x.kind = "dict"

\* The empty dict {}.
EmptyDict == [k \in {} |-> 0]

\* d.get(k, default)
Get(d, k, default) == IF k \in DOMAIN d THEN d[k] ELSE default

\* Mutant of DictUpdate: the new dict replaces the old one.
DictReplace(old, new) == new

\* old.update(new): every key of new takes new's value, the others stay.
DictUpdate(old, new) ==
  [k \in DOMAIN old \cup DOMAIN new |-> IF k \in DOMAIN new THEN new[k] ELSE old[k]]

\* x in list
In(x, list) == \E i \in 1..Len(list) : list[i] = x

Max(a, b) == IF a >= b THEN a ELSE b

RECURSIVE SumSeq(_)
SumSeq(s) == IF s = <<>> THEN 0 ELSE Head(s) + SumSeq(Tail(s))

\* len(str(x)) for the payloads of the model: a str is itself, None prints as
\* "None", a list of plain strings as ['a', 'b'], a dict as {'k': 'v', ...}.
ReprLenList(items) ==
  2 + SumSeq([i \in 1..Len(items) |->
                (IF items[i].kind = "str" THEN Len(items[i].val) + 2 ELSE 4)])
    + (IF Len(items) > 1 THEN 2 * (Len(items) - 1) ELSE 0)

StrLen(x) ==
  CASE x.kind = "str" -> Len(x.val)
    [] x.kind = "none" -> 4
    [] x.kind = "list" -> ReprLenList(x.val)
    [] OTHER -> 2

(***************************************************************************)
(* Enums.                                                                  *)
(***************************************************************************)
PARAGRAPH == "paragraph"
TITLE == "title"
CHART == "chart"
BULLET_LIST == "bullet_list"
TEXT_CHART_ROW == "text_chart_row"
SPACER == "spacer"
HIGHLIGHT_BOX == "highlight_box"
SUBHEADER_LEGEND == "subheader_legend"
PAGE_SETUP == "page_setup"

BlockType == {PARAGRAPH, TITLE, CHART, BULLET_LIST, TEXT_CHART_ROW, SPACER,
              HIGHLIGHT_BOX, SUBHEADER_LEGEND, PAGE_SETUP}

EXECUTIVE_SUMMARY == "executive_summary"
MACRO_OVERVIEW == "macro_overview"
ANALYSIS_OVERALL == "analysis_overall"
CONSTRAINTS == "constraints"
SUBINDICES == "subindices"
TABLES == "tables"

SectionType == {EXECUTIVE_SUMMARY, MACRO_OVERVIEW, ANALYSIS_OVERALL,
                CONSTRAINTS, SUBINDICES, TABLES}

(***************************************************************************)
(* Section palettes.                                                       *)
(***************************************************************************)
SECTION_PALETTES ==
  [s \in SectionType |->
     CASE s = EXECUTIVE_SUMMARY ->
            <<PAGE_SETUP, TITLE, PARAGRAPH, SUBHEADER_LEGEND, HIGHLIGHT_BOX,
              TEXT_CHART_ROW, CHART, BULLET_LIST, SPACER>>
       [] s = TABLES ->
            <<PAGE_SETUP, TITLE, PARAGRAPH, CHART, SPACER>>
       [] OTHER ->
            <<PAGE_SETUP, TITLE, PARAGRAPH, CHART, TEXT_CHART_ROW, BULLET_LIST,
              SPACER>>]

(***************************************************************************)
(* Block and height estimation.                                            *)
(***************************************************************************)
\* Block(type, content, metadata) with the dataclass default estimated_height.
DefaultEstimatedHeight == 50

Block(type, content, metadata) ==
  [type |-> type, content |-> content, metadata |-> metadata,
   estimated_height |-> DefaultEstimatedHeight]

TitleHeights(level) ==
  CASE level = 1 -> 45
    [] level = 2 -> 35
    [] level = 3 -> 25
    [] OTHER -> 25

HighlightSectionHeight(section) ==
  LET content == IF IsDict(section) THEN Get(section.val, "content", "") ELSE ""
  IN  (Len(content) \div 80) * 15 + 30

estimate_block_height(block) ==
  CASE block.type = PARAGRAPH ->
         LET chars == StrLen(block.content)
             chars_per_line == 100
             lines == Max(1, chars \div chars_per_line)
         IN  lines * 15 + 10
    [] block.type = TITLE ->
         TitleHeights(Get(block.metadata, "level", 1))
    [] block.type = CHART ->
         Get(block.metadata, "height", 200)
    [] block.type = BULLET_LIST ->
         LET items == IF IsList(block.content) THEN block.content.val ELSE <<>>
         IN  Len(items) * 22 + 15
    [] block.type = TEXT_CHART_ROW ->
         LET text == IF IsDict(block.content)
                       THEN Get(block.content.val, "text", "") ELSE ""
             text_height == (Len(text) \div 80) * 15 + 20
             chart_height == 180
         IN  Max(text_height, chart_height)
    [] block.type = HIGHLIGHT_BOX ->
         LET sections == IF IsList(block.content) THEN block.content.val ELSE <<>>
         IN  30 + SumSeq([i \in 1..Len(sections) |->
                            HighlightSectionHeight(sections[i])])
    [] block.type = SUBHEADER_LEGEND -> 60
    [] block.type = PAGE_SETUP -> 0
    [] block.type = SPACER -> 20
    [] OTHER -> 50

(***************************************************************************)
(* Pagination.                                                             *)
(***************************************************************************)
\* Default page budget of calculate_page_breaks.
page_height_default == 750

\* Mutant of page_breaks_loop: a break does not reset the accumulated height.
RECURSIVE page_breaks_loop_no_reset(_, _, _, _, _)
page_breaks_loop_no_reset(blocks, page_height, i, current_height, page_breaks) ==
  IF i >= Len(blocks) THEN page_breaks
  ELSE LET block_height == estimate_block_height(blocks[i + 1])
       IN  IF current_height + block_height > page_height /\ current_height > 0
             THEN page_breaks_loop_no_reset(blocks, page_height, i + 1,
                                            current_height + block_height,
                                            Append(page_breaks, i))
             ELSE page_breaks_loop_no_reset(blocks, page_height, i + 1,
                                            current_height + block_height,
                                            page_breaks)

\* Mutant of page_breaks_loop: the fit test leaves out the block's own height.
RECURSIVE page_breaks_loop_ignores_block(_, _, _, _, _)
page_breaks_loop_ignores_block(blocks, page_height, i, current_height, page_breaks) ==
  IF i >= Len(blocks) THEN page_breaks
  ELSE LET block_height == estimate_block_height(blocks[i + 1])
       IN  IF current_height > page_height /\ current_height > 0
             THEN page_breaks_loop_ignores_block(blocks, page_height, i + 1,
                                                 block_height,
                                                 Append(page_breaks, i))
             ELSE page_breaks_loop_ignores_block(blocks, page_height, i + 1,
                                                 current_height + block_height,
                                                 page_breaks)

\* Mutant of page_breaks_loop: a block that does not fit breaks the page
\* even when the page is empty.
RECURSIVE page_breaks_loop_breaks_empty(_, _, _, _, _)
page_breaks_loop_breaks_empty(blocks, page_height, i, current_height, page_breaks) ==
  IF i >= Len(blocks) THEN page_breaks
  ELSE LET block_height == estimate_block_height(blocks[i + 1])
       IN  IF current_height + block_height > page_height
             THEN page_breaks_loop_breaks_empty(blocks, page_height, i + 1,
                                                block_height,
                                                Append(page_breaks, i))
             ELSE page_breaks_loop_breaks_empty(blocks, page_height, i + 1,
                                                current_height + block_height,
                                                page_breaks)

\* Mutant of page_breaks_loop: after a break the new page counts as empty.
RECURSIVE page_breaks_loop_resets_to_zero(_, _, _, _, _)
page_breaks_loop_resets_to_zero(blocks, page_height, i, current_height, page_breaks) ==
  IF i >= Len(blocks) THEN page_breaks
  ELSE LET block_height == estimate_block_height(blocks[i + 1])
       IN  IF current_height + block_height > page_height /\ current_height > 0
             THEN page_breaks_loop_resets_to_zero(blocks, page_height, i + 1, 0,
                                                  Append(page_breaks, i))
             ELSE page_breaks_loop_resets_to_zero(blocks, page_height, i + 1,
                                                  current_height + block_height,
                                                  page_breaks)

\* The loop of calculate_page_breaks from 0-based index i on, with the
\* height accumulated on the current page and the breaks found so far.
RECURSIVE page_breaks_loop(_, _, _, _, _)
page_breaks_loop(blocks, page_height, i, current_height, page_breaks) ==
  IF i >= Len(blocks) THEN page_breaks
  ELSE LET block_height == estimate_block_height(blocks[i + 1])
       IN  IF current_height + block_height > page_height /\ current_height > 0
             THEN page_breaks_loop(blocks, page_height, i + 1, block_height,
                                   Append(page_breaks, i))
             ELSE page_breaks_loop(blocks, page_height, i + 1,
                                   current_height + block_height, page_breaks)

\* Mutant of calculate_page_breaks: the last page is closed by a break at
\* the end of the sequence.
calculate_page_breaks_trailing(blocks, page_height) ==
  Append(page_breaks_loop(blocks, page_height, 0, 0, <<>>), Len(blocks))

calculate_page_breaks(blocks, page_height) ==
  page_breaks_loop(blocks, page_height, 0, 0, <<>>)

(***************************************************************************)
(* Default block templates.                                                *)
(***************************************************************************)
get_default_block_content(block_type) ==
  CASE block_type = PARAGRAPH ->
         [content |-> Str("Enter your paragraph text here..."),
          metadata |-> [font_size |-> 10, line_height |-> 13, bold |-> FALSE,
                        color |-> "black"]]
    [] block_type = TITLE ->
         [content |-> Str("New Section Title"),
          metadata |-> [level |-> 2, color |-> "ecestitle", underline |-> FALSE]]
    [] block_type = CHART ->
         [content |-> Str("ch1.png"),
          metadata |-> [width |-> "linewidth", alignment |-> "center"]]
    [] block_type = BULLET_LIST ->
         [content |-> List(<<Str("First point"), Str("Second point"),
                             Str("Third point")>>),
          metadata |-> EmptyDict]
    [] block_type = TEXT_CHART_ROW ->
         [content |-> Dict([text |-> "Enter text content here...",
                            chart_file |-> "ch1.png"]),
          metadata |-> [text_width |-> "0.55", chart_width |-> "0.42",
                        font_size |-> 10, line_height |-> 13]]
    [] block_type = SPACER ->
         [content |-> NoneContent, metadata |-> [size |-> "1em"]]
    [] block_type = HIGHLIGHT_BOX ->
         [content |-> List(<<Dict([title |-> "Section Title:", color |-> "textblue",
                                   content |-> "-- Content here..."])>>),
          metadata |-> EmptyDict]
    [] block_type = SUBHEADER_LEGEND ->
         [content |-> Dict([text |-> "Subheader text\nSecond line",
                            legend_image |-> "arrow.png"]),
          metadata |-> EmptyDict]
    [] block_type = PAGE_SETUP ->
         [content |-> Dict([background |-> "con_bg.png",
                            geometry |-> [left |-> "2cm", right |-> "1.5cm",
                                          top |-> "3cm", bottom |-> "2.5cm"],
                            page_number |-> 1]),
          metadata |-> EmptyDict]
    [] OTHER -> [content |-> Str(""), metadata |-> EmptyDict]

(***************************************************************************)
(* LaTeX generators.  Each X_latex is the markup of generate_X up to its   *)
(* trailing newlines; generate_X appends them as the code does.            *)
(***************************************************************************)
RECURSIVE Concat(_)
Concat(strs) == IF strs = <<>> THEN "" ELSE Head(strs) \o Concat(Tail(strs))

\* sep.join(strs)
RECURSIVE Join(_, _)
Join(strs, sep) ==
  IF strs = <<>> THEN ""
  ELSE IF Len(strs) = 1 THEN strs[1]
  ELSE strs[1] \o sep \o Join(Tail(strs), sep)

\* f"{content}" of a str or None payload.
FormatContent(x) == IF x.kind = "str" THEN x.val ELSE "None"

\* text.split("\n") for the texts of the model: the two-line default
\* subheader, the empty text, and single lines.
TwoLineText == "Subheader text\nSecond line"
SplitLines(text) ==
  CASE text = TwoLineText -> <<"Subheader text", "Second line">>
    [] OTHER -> <<text>>

paragraph_latex(block) ==
  LET font_size == Get(block.metadata, "font_size", 10)
      line_height == Get(block.metadata, "line_height", 13)
      bold == Get(block.metadata, "bold", FALSE)
      color == Get(block.metadata, "color", "black")
  IN  "\\noindent\n"
      \o "{\\fontsize{" \o ToString(font_size) \o "}{" \o ToString(line_height)
      \o "}\\selectfont"
      \o (IF color # "" /\ color # "black" THEN " \\color{" \o color \o "}" ELSE "")
      \o (IF bold THEN " \\textbf{" ELSE "")
      \o "\n" \o FormatContent(block.content)
      \o (IF bold THEN "}" ELSE "")
      \o "\n}\n\\vspace{0.5em}"

generate_paragraph(block) == paragraph_latex(block) \o "\n"

\* sizes.get(level, (10, 13))
TitleSizes(level) ==
  CASE level = 1 -> <<22, 26>>
    [] level = 2 -> <<14, 18>>
    [] level = 3 -> <<11, 14>>
    [] OTHER -> <<10, 13>>

title_latex(block) ==
  LET level == Get(block.metadata, "level", 1)
      color == Get(block.metadata, "color", "ecestitle")
      underline == Get(block.metadata, "underline", FALSE)
      font_size == TitleSizes(level)[1]
      line_height == TitleSizes(level)[2]
  IN  "\\noindent\n"
      \o "{\\fontsize{" \o ToString(font_size) \o "}{" \o ToString(line_height)
      \o "}\\selectfont \\textbf{\\color{" \o color \o "}"
      \o (IF underline THEN " \\underline{" ELSE "")
      \o "\n" \o FormatContent(block.content)
      \o (IF underline THEN "}" ELSE "")
      \o "\n}}} \\vspace{0.5em}"

generate_title(block) == title_latex(block) \o "\n"

\* The width option of \includegraphics in generate_chart.
ChartWidthOption(block) ==
  LET width == Get(block.metadata, "width", "linewidth")
  IN  IF width = "linewidth" THEN "\\linewidth" ELSE width

chart_latex(block) ==
  LET image_file == FormatContent(block.content)
      alignment == Get(block.metadata, "alignment", "center")
  IN  "\\noindent\n"
      \o (IF alignment = "center" THEN "\\begin{center}\n" ELSE "")
      \o "    \\includegraphics[width=" \o ChartWidthOption(block) \o "]{"
      \o image_file \o "}\n"
      \o (IF alignment = "center" THEN "\\end{center}\n" ELSE "")
      \o "\\vspace{0.5em}"

generate_chart(block) == chart_latex(block) \o "\n"

bullet_list_latex(block) ==
  LET items == block.content.val
  IN  "\\begin{itemize}\n"
      \o Concat([i \in 1..Len(items) |-> "    \\item " \o items[i].val \o "\n"])
      \o "\\end{itemize}\n"
      \o "\\vspace{0.5em}"

generate_bullet_list(block) == bullet_list_latex(block) \o "\n"

text_chart_row_latex(block) ==
  LET text == Get(block.content.val, "text", "")
      chart_file == Get(block.content.val, "chart_file", "")
      text_width == Get(block.metadata, "text_width", "0.55")
      chart_width == Get(block.metadata, "chart_width", "0.42")
      font_size == Get(block.metadata, "font_size", 10)
      line_height == Get(block.metadata, "line_height", 13)
  IN  "\\noindent\n"
      \o "\\begin{minipage}[t]{" \o text_width \o "\\textwidth}\n"
      \o "    \\fontsize{" \o ToString(font_size) \o "}{" \o ToString(line_height)
      \o "}\\selectfont\n"
      \o "    " \o text \o "\n"
      \o "\\end{minipage}%\n"
      \o "\\hfill\n"
      \o "\\begin{minipage}[t]{" \o chart_width \o "\\textwidth}\n"
      \o "    \\vspace{0pt}\n"
      \o "    \\centering\n"
      \o "    \\includegraphics[width=\\linewidth]{" \o chart_file \o "}\n"
      \o "\\end{minipage}\n"
      \o "\\vspace{1em}"

generate_text_chart_row(block) == text_chart_row_latex(block) \o "\n"

spacer_latex(block) ==
  "\\vspace{" \o Get(block.metadata, "size", "1em") \o "}"

generate_spacer(block) == spacer_latex(block) \o "\n"

\* The markup of one section of a highlight box, i counted from 1.
HighlightSectionLatex(sections, i) ==
  LET title == Get(sections[i].val, "title", "")
      color == Get(sections[i].val, "color", "black")
      content == Get(sections[i].val, "content", "")
  IN  (IF title # ""
         THEN "        \\textbf{\\color{" \o color \o "} \\underline{" \o title
              \o "}} \\\\\n"
         ELSE "")
      \o "        \\color{" \o color \o "}\n"
      \o "        " \o content \o "\n"
      \o (IF i < Len(sections) THEN "\n        \\vspace{0.3em}\n" ELSE "")

highlight_box_latex(block) ==
  LET sections == block.content.val
  IN  "\\noindent\n"
      \o "\\begin{tikzpicture}\n"
      \o "    \\node[draw=black, line width=0.8pt, inner sep=10pt, align=justify, text width=14.8cm] (box) {\n"
      \o "        \\fontsize{10}{13}\\selectfont\n\n"
      \o Concat([i \in 1..Len(sections) |-> HighlightSectionLatex(sections, i)])
      \o "    };\n"
      \o "\\end{tikzpicture}\n"
      \o "\\vspace{1em}"

generate_highlight_box(block) == highlight_box_latex(block) \o "\n"

\* The lines of a subheader text that generate_subheader_legend prints.
SubheaderLines(text) ==
  SelectSeq(SplitLines(text), LAMBDA line : line # "")

subheader_legend_latex(block) ==
  LET text == Get(block.content.val, "text", "")
      legend_image == Get(block.content.val, "legend_image", "arrow.png")
      text_lines == SubheaderLines(text)
  IN  "\\noindent\n"
      \o "\\begin{minipage}[t]{0.50\\textwidth}\n"
      \o "    \\vspace{0pt}\n"
      \o Concat([i \in 1..Len(text_lines) |->
                   "    \\textbf{\\underline{" \o text_lines[i] \o "}} \\\\\n"])
      \o "\\end{minipage}%\n"
      \o "\\hfill\n"
      \o "\\begin{minipage}[t]{0.45\\textwidth}\n"
      \o "    \\vspace{0pt}\n"
      \o "    \\centering\n"
      \o "    \\includegraphics[width=\\linewidth, height=1cm]{" \o legend_image
      \o "}\n"
      \o "\\end{minipage}\n"
      \o "\\vspace{1em}"

generate_subheader_legend(block) == subheader_legend_latex(block) \o "\n"

\* The geometry generate_page_setup prints when the content has none.
GeneratorGeometry ==
  [left |-> "2cm", right |-> "1.5cm", top |-> "3cm", bottom |-> "2.5cm"]

\* The four margins generate_page_setup prints.
PrintedGeometry(block) ==
  LET geometry == Get(block.content.val, "geometry", GeneratorGeometry)
  IN  [left |-> Get(geometry, "left", "2cm"),
       right |-> Get(geometry, "right", "1.5cm"),
       top |-> Get(geometry, "top", "3cm"),
       bottom |-> Get(geometry, "bottom", "2.5cm")]

page_setup_latex(block) ==
  LET background == Get(block.content.val, "background", "con_bg.png")
      geometry == PrintedGeometry(block)
      page_number == Get(block.content.val, "page_number", 1)
  IN  "\\newgeometry{left=" \o geometry.left \o ", right=" \o geometry.right
      \o ", top=" \o geometry.top \o ", bottom=" \o geometry.bottom \o "}\n\n"
      \o "\\begin{tikzpicture}[remember picture, overlay]\n"
      \o "    \\node[anchor=north west, inner sep=0pt] at (current page.north west) {\n"
      \o "        \\includegraphics[width=\\paperwidth, height=\\paperheight]{"
      \o background \o "}\n"
      \o "    };\n"
      \o "    \\node[anchor=south east] at ([xshift=-1cm, yshift=1cm]current page.south east) {\n"
      \o "        \\fontsize{14}{14}\\selectfont \\textbf{" \o ToString(page_number)
      \o "}\n"
      \o "    };\n"
      \o "\\end{tikzpicture}"

generate_page_setup(block) == page_setup_latex(block) \o "\n\n"

\* The markup of a block without its trailing newlines.
BlockLatex(block) ==
  CASE block.type = PARAGRAPH -> paragraph_latex(block)
    [] block.type = TITLE -> title_latex(block)
    [] block.type = CHART -> chart_latex(block)
    [] block.type = BULLET_LIST -> bullet_list_latex(block)
    [] block.type = TEXT_CHART_ROW -> text_chart_row_latex(block)
    [] block.type = SPACER -> spacer_latex(block)
    [] block.type = HIGHLIGHT_BOX -> highlight_box_latex(block)
    [] block.type = SUBHEADER_LEGEND -> subheader_legend_latex(block)
    [] block.type = PAGE_SETUP -> page_setup_latex(block)

\* BLOCK_GENERATORS[block.type](block)
BLOCK_GENERATORS(block) ==
  CASE block.type = PARAGRAPH -> generate_paragraph(block)
    [] block.type = TITLE -> generate_title(block)
    [] block.type = CHART -> generate_chart(block)
    [] block.type = BULLET_LIST -> generate_bullet_list(block)
    [] block.type = TEXT_CHART_ROW -> generate_text_chart_row(block)
    [] block.type = SPACER -> generate_spacer(block)
    [] block.type = HIGHLIGHT_BOX -> generate_highlight_box(block)
    [] block.type = SUBHEADER_LEGEND -> generate_subheader_legend(block)
    [] block.type = PAGE_SETUP -> generate_page_setup(block)

(***************************************************************************)
(* Markup text.  A text is the sequence of its lines, '\n'.join(lines);    *)
(* the markup a generator emits for one block is kept as one line of the   *)
(* sequence, trailing newlines included, since no line inside it is a      *)
(* comment.  Prose carries no LaTeX command, brace, '%' or outer blank, so *)
(* that str.strip leaves it as it is.                                      *)
(***************************************************************************)
\* "% BLOCK:<name> <meta>": a line the marker pattern matches.  meta is the
\* whitespace-separated parts after the name, "key=val" or a bare word.
MarkerLine(name, meta) == [kind |-> "marker", name |-> name, meta |-> meta]
MetaPair(key, val) == [key |-> key, val |-> val]
MetaWord(word) == [word |-> word]

\* "% BLOCK:END." : starts with "% BLOCK:END", not matched by the pattern.
EndLine == [kind |-> "end"]

\* "% ========="
SeparatorLine == [kind |-> "separator"]

\* Any other line starting with '%'.
CommentLine(text) == [kind |-> "comment", text |-> text]

BlankLine == [kind |-> "blank"]

\* A line of prose.
TextLine(text) == [kind |-> "text", text |-> text]

\* BLOCK_GENERATORS[block.type](block)
MarkupLine(block) == [kind |-> "markup", block |-> block]

\* The characters of a line.
LineText(line) ==
  CASE line.kind = "markup" -> BLOCK_GENERATORS(line.block)
    [] line.kind \in {"text", "comment"} -> line.text
    [] OTHER -> ""

\* line.strip()
LineBody(line) ==
  CASE line.kind = "markup" -> BlockLatex(line.block)
    [] line.kind \in {"text", "comment"} -> line.text
    [] OTHER -> ""

\* What a parser step hands back: a value, or the exception it raised.
Ok(v) == [raised |-> FALSE, val |-> v]
Err(exc) == [raised |-> TRUE, val |-> exc]

\* The geometry values of the model that contain a second '='.
ValuesWithEquals == {"1=2cm"}

\* for param in geometry_str.split(','): key, val = param.strip().split('=')
GeometryUnpackFails(geometry) ==
  \E k \in DOMAIN geometry : geometry[k] \in ValuesWithEquals

\* The image file of the first \includegraphics[..]{file} of a line, "" when
\* there is none or its braces are empty.
ImageFile(line) ==
  IF line.kind # "markup" THEN ""
  ELSE CASE line.block.type = CHART -> FormatContent(line.block.content)
         [] line.block.type = TEXT_CHART_ROW ->
              Get(line.block.content.val, "chart_file", "")
         [] line.block.type = SUBHEADER_LEGEND ->
              Get(line.block.content.val, "legend_image", "arrow.png")
         [] line.block.type = PAGE_SETUP ->
              Get(line.block.content.val, "background", "con_bg.png")
         [] OTHER -> ""

\* match.group(1) if match else default
FirstImage(line, default) == IF ImageFile(line) # "" THEN ImageFile(line) ELSE default

\* int(page_match.group(1)) if page_match else 1, for \textbf{(\d+)}
PageNumber(line) ==
  IF line.kind = "markup" /\ line.block.type = PAGE_SETUP
    THEN LET n == Get(line.block.content.val, "page_number", 1)
         IN  IF n >= 0 THEN n ELSE 1
    ELSE 1

\* re.sub(r'\s+', ' ', text).strip() on the prose of the model.
DoubleSpaced == "Two  spaces here"
clean_text(text) ==
  CASE text = DoubleSpaced -> "Two spaces here"
    [] OTHER -> text

(***************************************************************************)
(* Tier 1: blocks delimited by markers.                                    *)
(***************************************************************************)
\* type_map.get(block_type_str)
type_map(block_type_str) ==
  CASE block_type_str = "PAGE_SETUP" -> Some(PAGE_SETUP)
    [] block_type_str = "TITLE" -> Some(TITLE)
    [] block_type_str = "PARAGRAPH" -> Some(PARAGRAPH)
    [] block_type_str = "CHART" -> Some(CHART)
    [] block_type_str = "BULLET_LIST" -> Some(BULLET_LIST)
    [] block_type_str = "TEXT_CHART_ROW" -> Some(TEXT_CHART_ROW)
    [] block_type_str = "HIGHLIGHT_BOX" -> Some(HIGHLIGHT_BOX)
    [] block_type_str = "SUBHEADER_LEGEND" -> Some(SUBHEADER_LEGEND)
    [] block_type_str = "SPACER" -> Some(SPACER)
    [] OTHER -> None

\* int(val) of the digit strings of the model.
DigitStrings == [s \in {"0", "10", "12", "400"} |->
                   CASE s = "0" -> 0 [] s = "10" -> 10 [] s = "12" -> 12
                     [] s = "400" -> 400]

\* The value _parse_metadata_string stores for "key=val".
ConvertMetaValue(val) ==
  CASE val \in {"true", "True", "TRUE"} -> TRUE
    [] val \in {"false", "False", "FALSE"} -> FALSE
    [] val \in DOMAIN DigitStrings -> DigitStrings[val]
    [] OTHER -> val

RECURSIVE parse_metadata_string(_)
parse_metadata_string(meta_str) ==
  IF meta_str = <<>> THEN EmptyDict
  ELSE LET part == meta_str[Len(meta_str)]
           metadata == parse_metadata_string(SubSeq(meta_str, 1, Len(meta_str) - 1))
       IN  IF "key" \in DOMAIN part
             THEN DictUpdate(metadata, (part.key :> ConvertMetaValue(part.val)))
             ELSE metadata

\* content.strip(), on lines: the blank lines at both ends go.
RECURSIVE StripLines(_)
StripLines(content_lines) ==
  IF content_lines = <<>> THEN <<>>
  ELSE IF Head(content_lines).kind = "blank" THEN StripLines(Tail(content_lines))
  ELSE IF content_lines[Len(content_lines)].kind = "blank"
    THEN StripLines(SubSeq(content_lines, 1, Len(content_lines) - 1))
  ELSE content_lines

\* The geometry _create_block_from_marker starts from.
MarkerGeometry ==
  [left |-> "5cm", right |-> "1.5cm", top |-> "3cm", bottom |-> "2.5cm"]

IsMarkupOf(line, block_type) ==
  line.kind = "markup" /\ line.block.type = block_type

\* The sections the marker tier finds in the markup of a highlight box: the
\* titled ones; the last one of the box runs on to the end of the picture.
MarkerSections(line) ==
  LET sections == line.block.content.val
      titled == SelectSeq([i \in 1..Len(sections) |-> i],
                          LAMBDA i : Get(sections[i].val, "title", "") # "")
      Tail_ == "};\n\\end{tikzpicture}"
      Content(i) ==
        LET content == Get(sections[i].val, "content", "")
        IN  IF i < Len(sections) THEN content
            ELSE IF content = "" THEN Tail_
            ELSE content \o "\n    " \o Tail_
  IN  [j \in 1..Len(titled) |->
         Dict([title |-> Get(sections[titled[j]].val, "title", ""),
               color |-> Get(sections[titled[j]].val, "color", "black"),
               content |-> Content(titled[j])])]

\* The content _create_block_from_marker extracts for a recognized type from
\* the stripped content of a span.  The span holds one line: prose, or the
\* markup of a block, which in a title or a paragraph span is of that type.
MarkerContent(block_type, line, metadata) ==
  CASE block_type = PAGE_SETUP ->
         Dict([background |-> Get(metadata, "background",
                                  FirstImage(line, "con_bg.png")),
               geometry |-> IF IsMarkupOf(line, PAGE_SETUP)
                              THEN DictUpdate(MarkerGeometry,
                                              PrintedGeometry(line.block))
                              ELSE MarkerGeometry,
               page_number |-> Get(metadata, "page", PageNumber(line))])
    [] block_type = TITLE ->
         IF IsMarkupOf(line, TITLE) THEN Str("") ELSE Str(LineBody(line))
    [] block_type = PARAGRAPH ->
         IF IsMarkupOf(line, PARAGRAPH)
           THEN LET text == FormatContent(line.block.content)
                IN  IF Get(line.block.metadata, "bold", FALSE)
                      THEN IF text = "" THEN Str("\\textbf{")
                           ELSE Str("\\textbf{\n" \o text)
                      ELSE Str(text)
           ELSE Str(LineBody(line))
    [] block_type = CHART ->
         Str(Get(metadata, "file", FirstImage(line, "ch1.png")))
    [] block_type = BULLET_LIST ->
         IF IsMarkupOf(line, BULLET_LIST)
           THEN List(SelectSeq(line.block.content.val, LAMBDA item : item.val # ""))
           ELSE List(<<>>)
    [] block_type = TEXT_CHART_ROW ->
         Dict([text |-> IF IsMarkupOf(line, TEXT_CHART_ROW)
                          THEN Get(line.block.content.val, "text", "") ELSE "",
               chart_file |-> Get(metadata, "chart", FirstImage(line, "ch1.png"))])
    [] block_type = HIGHLIGHT_BOX ->
         IF IsMarkupOf(line, HIGHLIGHT_BOX) /\ MarkerSections(line) # <<>>
           THEN List(MarkerSections(line))
           ELSE List(<<Dict([title |-> "", color |-> "black",
                             content |-> LineBody(line)])>>)
    [] block_type = SUBHEADER_LEGEND ->
         Dict([text |-> IF IsMarkupOf(line, SUBHEADER_LEGEND)
                          THEN Join(SubheaderLines(
                                      Get(line.block.content.val, "text", "")), "\n")
                          ELSE "",
               legend_image |-> Get(metadata, "legend",
                                    FirstImage(line, "arrow.png"))])
    [] OTHER -> Str(LineBody(line))

\* _create_block_from_marker: None for an unknown type or an empty content,
\* else the block; ValueError when a margin of the span's \newgeometry holds
\* a second '='.
create_block_from_marker(block_type_str, content_lines, metadata) ==
  LET block_type == type_map(block_type_str)
      content == StripLines(content_lines)
  IN  IF ~block_type.some THEN Ok(None)
      ELSE IF content = <<>> THEN Ok(None)
      ELSE IF /\ block_type.v = PAGE_SETUP
              /\ IsMarkupOf(content[1], PAGE_SETUP)
              /\ GeometryUnpackFails(PrintedGeometry(content[1].block))
        THEN Err("ValueError")
      ELSE LET block == Block(block_type.v,
                              MarkerContent(block_type.v, content[1], metadata),
                              metadata)
           IN  Ok(Some([block EXCEPT
                          !.estimated_height = estimate_block_height(block)]))

\* blocks.append(block) if block
AppendIf(blocks, block) == IF block.some THEN Append(blocks, block.v) ELSE blocks

\* The block of the span that ends here, if the span has content lines.
SpanBlock(current_block_type, current_metadata, current_content_lines) ==
  IF current_block_type.some /\ current_content_lines # <<>>
    THEN create_block_from_marker(current_block_type.v, current_content_lines,
                                  current_metadata)
    ELSE Ok(None)

\* The loop of _parse_by_markers over the lines, and the save after it.
RECURSIVE parse_by_markers_loop(_, _, _, _, _, _)
parse_by_markers_loop(lines, i, current_block_type, current_metadata, current_content_lines, blocks) ==
  LET made == SpanBlock(current_block_type, current_metadata,
                        current_content_lines)
  IN  IF i > Len(lines)
        THEN IF made.raised THEN made ELSE Ok(AppendIf(blocks, made.val))
      ELSE IF lines[i].kind = "marker"
        THEN IF made.raised THEN made
             ELSE parse_by_markers_loop(lines, i + 1, Some(lines[i].name),
                                        parse_metadata_string(lines[i].meta),
                                        <<>>, AppendIf(blocks, made.val))
      ELSE IF current_block_type.some
        THEN IF lines[i].kind = "end"
               THEN IF made.raised THEN made
                    ELSE parse_by_markers_loop(lines, i + 1, None,
                                               current_metadata, <<>>,
                                               AppendIf(blocks, made.val))
             ELSE IF lines[i].kind # "separator"
               THEN parse_by_markers_loop(lines, i + 1, current_block_type,
                                          current_metadata,
                                          Append(current_content_lines, lines[i]),
                                          blocks)
             ELSE parse_by_markers_loop(lines, i + 1, current_block_type,
                                        current_metadata, current_content_lines,
                                        blocks)
      ELSE parse_by_markers_loop(lines, i + 1, current_block_type,
                                 current_metadata, current_content_lines, blocks)

parse_by_markers(latex_content) ==
  parse_by_markers_loop(latex_content, 1, None, EmptyDict, <<>>, <<>>)

(***************************************************************************)
(* Tier 2: blocks recognised by their structure.  The working text is kept *)
(* as the pieces left of each cleaned line: its length, and whether a      *)
(* pattern has taken its match out of it.  A pattern matches inside the    *)
(* markup of one block; match.start() is the offset of the piece in the    *)
(* working text of that moment plus the offset of the match in the piece.  *)
(***************************************************************************)
\* cleaned_lines: the lines starting with '%' go, and the '%' that ends a
\* line of a minipage pair goes.
CleanedLength(line) ==
  Len(LineText(line))
    - (IF \/ IsMarkupOf(line, TEXT_CHART_ROW)
          \/ IsMarkupOf(line, SUBHEADER_LEGEND) THEN 1 ELSE 0)

CleanedLines(lines) ==
  LET kept == SelectSeq(lines, LAMBDA line :
                          line.kind \notin {"marker", "end", "separator", "comment"})
  IN  [i \in 1..Len(kept) |->
         [line |-> kept[i], len |-> CleanedLength(kept[i]), done |-> FALSE]]

\* The offset of piece i in '\n'.join(pieces).
RECURSIVE PieceOffset(_, _)
PieceOffset(content, i) ==
  IF i <= 1 THEN 0 ELSE PieceOffset(content, i - 1) + content[i - 1].len + 1

\* What a pattern finds in a line: nothing, or a match of some length at
\* some offset, with the block built from it if one is built, or the
\* exception building it raised.
NoMatch == [matched |-> FALSE]
Match(start, len, block) ==
  [matched |-> TRUE, raised |-> FALSE, start |-> start, len |-> len, block |-> block]
MatchRaises == [matched |-> TRUE, raised |-> TRUE]

\* len("\\noindent\n")
NoindentLength == Len("\\noindent\n")

\* Block(type, content, metadata) with its height estimated.
Estimated(block) == [block EXCEPT !.estimated_height = estimate_block_height(block)]

\* \newgeometry{..}\s*\begin{tikzpicture}[remember picture, overlay]..\end{tikzpicture}
MatchPageSetup(line) ==
  IF ~IsMarkupOf(line, PAGE_SETUP) THEN NoMatch
  ELSE IF GeometryUnpackFails(PrintedGeometry(line.block)) THEN MatchRaises
  ELSE Match(0, Len(page_setup_latex(line.block)),
             Some([Block(PAGE_SETUP,
                         Dict([background |-> FirstImage(line, "con_bg.png"),
                               geometry |-> PrintedGeometry(line.block),
                               page_number |-> PageNumber(line)]),
                         EmptyDict) EXCEPT !.estimated_height = 0]))

\* The sections the fallback finds inside the node of a highlight box: the
\* titled ones, or else the whole inner text as one untitled section.
RegexSections(line) ==
  LET sections == line.block.content.val
      titled == SelectSeq(sections, LAMBDA s : Get(s.val, "title", "") # "")
      inner == Join([i \in 1..Len(sections) |->
                       "\\color{" \o Get(sections[i].val, "color", "black")
                       \o "}\n        " \o Get(sections[i].val, "content", "")],
                    "\n\n        \\vspace{0.3em}\n        ")
  IN  IF titled # <<>>
        THEN [j \in 1..Len(titled) |->
                Dict([title |-> Get(titled[j].val, "title", ""),
                      color |-> Get(titled[j].val, "color", "black"),
                      content |-> Get(titled[j].val, "content", "")])]
      ELSE IF sections # <<>>
        THEN <<Dict([title |-> "", color |-> "black", content |-> inner])>>
      ELSE <<>>

\* \begin{tikzpicture}\s*\node[draw=black..]\s*(box)\s*{..};\s*\end{tikzpicture}
MatchHighlightBox(line) ==
  IF ~IsMarkupOf(line, HIGHLIGHT_BOX) THEN NoMatch
  ELSE Match(NoindentLength,
             Len(highlight_box_latex(line.block)) - NoindentLength
               - Len("\n\\vspace{1em}"),
             IF RegexSections(line) # <<>>
               THEN Some(Estimated(Block(HIGHLIGHT_BOX, List(RegexSections(line)),
                                         EmptyDict)))
               ELSE None)

\* Two minipages of widths 0.50 and 0.45, the second with an image of
\* height=1cm.
MatchSubheaderLegend(line) ==
  IF ~IsMarkupOf(line, SUBHEADER_LEGEND) \/ ImageFile(line) = "" THEN NoMatch
  ELSE LET text_lines == SubheaderLines(Get(line.block.content.val, "text", ""))
       IN  Match(NoindentLength,
                 CleanedLength(line) - NoindentLength - Len("\n\\vspace{1em}\n"),
                 IF text_lines # <<>>
                   THEN Some(Estimated(Block(SUBHEADER_LEGEND,
                                             Dict([text |-> Join(text_lines, "\n"),
                                                   legend_image |-> ImageFile(line)]),
                                             EmptyDict)))
                   ELSE None)

\* float(s) of the widths of the model, as Python prints it back.
PyFloat(s) ==
  CASE s = "0.50" -> "0.5"
    [] s = "0.40" -> "0.4"
    [] OTHER -> s

\* Two minipages of widths 0.<digits>, the second with an image.
MatchTextChartRow(line) ==
  IF ~IsMarkupOf(line, TEXT_CHART_ROW) \/ ImageFile(line) = "" THEN NoMatch
  ELSE LET text == Get(line.block.content.val, "text", "")
           md == line.block.metadata
       IN  Match(NoindentLength,
                 CleanedLength(line) - NoindentLength - Len("\n\\vspace{1em}\n"),
                 IF text # ""
                   THEN Some(Estimated(Block(
                          TEXT_CHART_ROW,
                          Dict([text |-> text, chart_file |-> ImageFile(line)]),
                          [text_width |-> PyFloat(Get(md, "text_width", "0.55")),
                           chart_width |-> PyFloat(Get(md, "chart_width", "0.42")),
                           font_size |-> Get(md, "font_size", 10),
                           line_height |-> Get(md, "line_height", 13)])))
                   ELSE None)

\* The chart block of _extract_charts: the width option read back.
ParsedChart(line) ==
  LET option == ChartWidthOption(line.block)
      width == IF option = "" \/ option = "\\linewidth" THEN "linewidth" ELSE option
  IN  Estimated(Block(CHART, Str(ImageFile(line)),
                      [width |-> width, alignment |-> "center"]))

\* \noindent\s*\includegraphics[..]{..}
MatchChartNoindent(line) ==
  IF \/ ~IsMarkupOf(line, CHART) \/ ImageFile(line) = ""
     \/ Get(line.block.metadata, "alignment", "center") = "center" THEN NoMatch
  ELSE Match(0, Len(chart_latex(line.block)) - Len("\n\\vspace{0.5em}"),
             Some(ParsedChart(line)))

\* \begin{center}\s*\includegraphics[..]{..}\s*\end{center}
MatchChartCenter(line) ==
  IF \/ ~IsMarkupOf(line, CHART) \/ ImageFile(line) = ""
     \/ Get(line.block.metadata, "alignment", "center") # "center" THEN NoMatch
  ELSE Match(NoindentLength,
             Len(chart_latex(line.block)) - NoindentLength
               - Len("\n\\vspace{0.5em}"),
             Some(ParsedChart(line)))

\* Mutant of MatchBulletList: the item pattern needs a following \item, so
\* that the last item of a list is not found.
MatchBulletListNoLast(line) ==
  IF ~IsMarkupOf(line, BULLET_LIST) THEN NoMatch
  ELSE LET given == line.block.content.val
           kept == SelectSeq(SubSeq(given, 1, Len(given) - 1),
                             LAMBDA item : item.val # "")
           items == [i \in 1..Len(kept) |-> Str(clean_text(kept[i].val))]
       IN  Match(0, Len(bullet_list_latex(line.block)) - Len("\n\\vspace{0.5em}"),
                 IF items # <<>>
                   THEN Some(Estimated(Block(BULLET_LIST, List(items), EmptyDict)))
                   ELSE None)

\* \begin{itemize}..\end{itemize}
MatchBulletList(line) ==
  IF ~IsMarkupOf(line, BULLET_LIST) THEN NoMatch
  ELSE LET kept == SelectSeq(line.block.content.val, LAMBDA item : item.val # "")
           items == [i \in 1..Len(kept) |-> Str(clean_text(kept[i].val))]
       IN  Match(0, Len(bullet_list_latex(line.block)) - Len("\n\\vspace{0.5em}"),
                 IF items # <<>>
                   THEN Some(Estimated(Block(BULLET_LIST, List(items), EmptyDict)))
                   ELSE None)

\* The level _extract_titles gives a font size.
LevelOfFontSize(font_size) ==
  IF font_size >= 20 THEN 1 ELSE IF font_size >= 11 THEN 2 ELSE 3

\* \noindent\s*{\fontsize{..}{..}\selectfont\s+\textbf{\color{..}..}}} : the
\* closing braces of an underlined title do not fit it.
MatchTitle(line) ==
  IF ~IsMarkupOf(line, TITLE) \/ Get(line.block.metadata, "underline", FALSE)
    THEN NoMatch
  ELSE LET font_size == TitleSizes(Get(line.block.metadata, "level", 1))[1]
       IN  Match(0, Len(title_latex(line.block)) - Len(" \\vspace{0.5em}"),
                 Some(Estimated(Block(
                   TITLE, Str(FormatContent(line.block.content)),
                   [level |-> LevelOfFontSize(font_size),
                    color |-> Get(line.block.metadata, "color", "ecestitle"),
                    underline |-> FALSE]))))

\* The text _extract_paragraphs keeps of a paragraph: the bold wrapper has
\* lost its closing brace to the pattern and stays.
ParagraphText(block) ==
  LET text == clean_text(FormatContent(block.content))
  IN  IF Get(block.metadata, "bold", FALSE)
        THEN IF text = "" THEN "\\textbf{" ELSE "\\textbf{ " \o text
        ELSE text

\* \noindent\s*{\fontsize{..}{..}\selectfont(\s*\color{..})?..} up to the first
\* closing brace.  What is left of an underlined title matches too, and is
\* skipped as a title.
MatchParagraph(line) ==
  IF IsMarkupOf(line, PARAGRAPH)
    THEN LET md == line.block.metadata
             bold == Get(md, "bold", FALSE)
             color == Get(md, "color", "black")
             text == ParagraphText(line.block)
         IN  Match(0,
                   Len(paragraph_latex(line.block))
                     - Len(IF bold THEN "\n}\n\\vspace{0.5em}"
                           ELSE "\n\\vspace{0.5em}"),
                   IF text # "" /\ Len(text) > 5
                     THEN Some(Estimated(Block(
                            PARAGRAPH, Str(text),
                            [font_size |-> Get(md, "font_size", 10),
                             line_height |-> Get(md, "line_height", 13),
                             color |-> IF color = "" THEN "black" ELSE color,
                             bold |-> bold])))
                     ELSE None)
  ELSE IF IsMarkupOf(line, TITLE)
    THEN Match(0,
               Len(title_latex(line.block))
                 - Len(" \\underline{\n" \o FormatContent(line.block.content)
                       \o "}\n}}} \\vspace{0.5em}"),
               None)
  ELSE NoMatch

\* The patterns of the extractors, by the blocks they look for.
PatternMatch(pattern, line) ==
  CASE pattern = "page_setup" -> MatchPageSetup(line)
    [] pattern = "highlight_box" -> MatchHighlightBox(line)
    [] pattern = "subheader_legend" -> MatchSubheaderLegend(line)
    [] pattern = "text_chart_row" -> MatchTextChartRow(line)
    [] pattern = "chart_noindent" -> MatchChartNoindent(line)
    [] pattern = "chart_center" -> MatchChartCenter(line)
    [] pattern = "bullet_list" -> MatchBulletList(line)
    [] pattern = "title" -> MatchTitle(line)
    [] pattern = "paragraph" -> MatchParagraph(line)

\* One pattern over the working text: re.finditer appends a block per match,
\* re.sub then removes the matches.
RECURSIVE ExtractLoop(_, _, _, _, _)
ExtractLoop(content, work, blocks, i, pattern) ==
  IF i > Len(content) THEN Ok([content |-> work, blocks |-> blocks])
  ELSE LET m == IF content[i].done THEN NoMatch
                ELSE PatternMatch(pattern, content[i].line)
       IN  IF ~m.matched THEN ExtractLoop(content, work, blocks, i + 1, pattern)
           ELSE IF m.raised THEN Err("ValueError")
           ELSE ExtractLoop(
                  content,
                  [work EXCEPT ![i] = [line |-> content[i].line,
                                       len |-> content[i].len - m.len,
                                       done |-> TRUE]],
                  IF m.block.some
                    THEN Append(blocks,
                                [m.block.v EXCEPT !.metadata =
                                   DictUpdate(m.block.v.metadata,
                                              ("_position" :>
                                                 PieceOffset(content, i) + m.start))])
                    ELSE blocks,
                  i + 1, pattern)

Extract(state, pattern) ==
  IF state.raised THEN state
  ELSE ExtractLoop(state.val.content, state.val.content, state.val.blocks, 1,
                   pattern)

\* The eight extractors, each on what the one before left.
extract_page_setups(state) == Extract(state, "page_setup")
extract_highlight_boxes(state) == Extract(state, "highlight_box")
extract_subheader_legends(state) == Extract(state, "subheader_legend")
extract_text_chart_rows(state) == Extract(state, "text_chart_row")
extract_charts(state) == Extract(Extract(state, "chart_noindent"), "chart_center")
extract_bullet_lists(state) == Extract(state, "bullet_list")
extract_titles(state) == Extract(state, "title")
extract_paragraphs(state) == Extract(state, "paragraph")

\* b.metadata.get('_position', 9999)
PositionKey(block) == Get(block.metadata, "_position", 9999)

\* blocks.sort(key=...): stable.
RECURSIVE InsertSorted(_, _)
InsertSorted(sorted, block) ==
  IF sorted = <<>> THEN <<block>>
  ELSE IF PositionKey(sorted[Len(sorted)]) <= PositionKey(block)
    THEN Append(sorted, block)
  ELSE Append(InsertSorted(SubSeq(sorted, 1, Len(sorted) - 1), block),
              sorted[Len(sorted)])

RECURSIVE SortByPosition(_)
SortByPosition(blocks) ==
  IF blocks = <<>> THEN <<>>
  ELSE InsertSorted(SortByPosition(SubSeq(blocks, 1, Len(blocks) - 1)),
                    blocks[Len(blocks)])

\* Mutant of PopPosition: the key stays in the metadata.
PopPositionKept(block) == block

\* block.metadata.pop('_position', None)
PopPosition(block) ==
  [block EXCEPT !.metadata =
     [k \in DOMAIN block.metadata \ {"_position"} |-> block.metadata[k]]]

\* for block in blocks: block.metadata.pop('_position', None)
PopPositions(blocks) == [i \in 1..Len(blocks) |-> PopPosition(blocks[i])]

\* The blocks the extractors found, in the order parse_by_regex returns them.
SortedBlocks(final) ==
  IF final.raised THEN final
  ELSE Ok(PopPositions(SortByPosition(final.val.blocks)))

parse_by_regex(latex_content) ==
  SortedBlocks(
    extract_paragraphs(extract_titles(extract_bullet_lists(
      extract_charts(extract_text_chart_rows(extract_subheader_legends(
        extract_highlight_boxes(extract_page_setups(
          Ok([content |-> CleanedLines(latex_content), blocks |-> <<>>]))))))))))

(***************************************************************************)
(* parse: the marker tier, and the fallback when it returns no block.      *)
(***************************************************************************)
\* What parse hands back, with the tiers it called.
parse(latex_content) ==
  LET marked == parse_by_markers(latex_content)
  IN  IF marked.raised \/ marked.val # <<>>
        THEN marked @@ [calls |-> <<"_parse_by_markers">>]
      ELSE parse_by_regex(latex_content)
             @@ [calls |-> <<"_parse_by_markers", "_parse_by_regex">>]

(***************************************************************************)
(* State.                                                                  *)
(***************************************************************************)
VARIABLES
  section_type,      \* BlockManager.section_type
  blocks,            \* BlockManager.blocks
  available_blocks,  \* BlockManager.available_blocks
  last,              \* the last call on the manager and what it returned
  file,              \* the lines of the section file on disk
  calls              \* the parser tiers the last parse of the file called

vars == <<section_type, blocks, available_blocks, last, file, calls>>

\* What a call returned: a block, None, a bool, a list, or the exception raised.
Returned(op, kind, val) == [op |-> op, raised |-> FALSE, kind |-> kind, val |-> val]
Raised(op, exc, about) == [op |-> op, raised |-> TRUE, kind |-> exc, val |-> about]

(***************************************************************************)
(* Python list operations on the block sequence.                           *)
(***************************************************************************)
\* Mutant of ListInsert: the element lands one place too far.
ListInsertAfter(list, position, x) ==
  LET n == Len(list)
      q == IF position + 1 > n THEN n ELSE IF position + 1 < 0 THEN 0 ELSE position + 1
  IN  SubSeq(list, 1, q) \o <<x>> \o SubSeq(list, q + 1, n)

\* list.insert(position, x): a negative position counts from the end, and a
\* position outside the list is clamped to its ends.
ListInsert(list, position, x) ==
  LET n == Len(list)
      q == IF position < 0 THEN Max(position + n, 0)
           ELSE IF position > n THEN n ELSE position
  IN  SubSeq(list, 1, q) \o <<x>> \o SubSeq(list, q + 1, n)

\* list.pop(index) for 0 <= index < len: the list without that element.
ListPop(list, index) ==
  SubSeq(list, 1, index) \o SubSeq(list, index + 2, Len(list))

(***************************************************************************)
(* BlockManager.                                                           *)
(***************************************************************************)
\* BlockManager(section_type)
BlockManagerInit(s) ==
  /\ section_type = s
  /\ blocks = <<>>
  /\ available_blocks = SECTION_PALETTES[s]

\* The block add_block builds: metadata or {}, height estimated.
NewBlock(block_type, content, metadata) ==
  LET block == Block(block_type, content,
                     IF metadata.some /\ metadata.v # EmptyDict
                       THEN metadata.v ELSE EmptyDict)
  IN  [block EXCEPT !.estimated_height = estimate_block_height(block)]

\* Mutant of add_block: the palette is checked after the block is stored.
add_block_check_after_insert(block_type, content, metadata, position) ==
  LET block == NewBlock(block_type, content, metadata)
  IN  /\ Len(blocks) < MaxBlocks
      /\ blocks' = IF ~position.some THEN Append(blocks, block)
                   ELSE ListInsert(blocks, position.v, block)
      /\ last' = IF ~In(block_type, available_blocks)
                   THEN Raised("add_block", "ValueError", block_type)
                   ELSE Returned("add_block", "block", block)
      /\ UNCHANGED <<section_type, available_blocks, file, calls>>

add_block(block_type, content, metadata, position) ==
  IF ~In(block_type, available_blocks)
    THEN /\ last' = Raised("add_block", "ValueError", block_type)
         /\ UNCHANGED <<section_type, blocks, available_blocks, file, calls>>
    ELSE LET block == NewBlock(block_type, content, metadata)
         IN  /\ Len(blocks) < MaxBlocks
             /\ blocks' = IF ~position.some THEN Append(blocks, block)
                          ELSE ListInsert(blocks, position.v, block)
             /\ last' = Returned("add_block", "block", block)
             /\ UNCHANGED <<section_type, available_blocks, file, calls>>

\* Mutant of remove_block: no lower bound on the index, so that a negative
\* index pops from the end as list.pop does.
remove_block_negative_index(index) ==
  IF -Len(blocks) <= index /\ index < Len(blocks)
    THEN LET i == IF index < 0 THEN index + Len(blocks) ELSE index
         IN  /\ blocks' = ListPop(blocks, i)
             /\ last' = Returned("remove_block", "block", blocks[i + 1])
             /\ UNCHANGED <<section_type, available_blocks, file, calls>>
    ELSE /\ last' = Returned("remove_block", "none", "None")
         /\ UNCHANGED <<section_type, blocks, available_blocks, file, calls>>

remove_block(index) ==
  IF 0 <= index /\ index < Len(blocks)
    THEN /\ blocks' = ListPop(blocks, index)
         /\ last' = Returned("remove_block", "block", blocks[index + 1])
         /\ UNCHANGED <<section_type, available_blocks, file, calls>>
    ELSE /\ last' = Returned("remove_block", "none", "None")
         /\ UNCHANGED <<section_type, blocks, available_blocks, file, calls>>

\* Mutant of MovedBlocks: the two places exchange their blocks.
MovedBlocksSwapped(list, from_index, to_index) ==
  LET to == IF to_index >= Len(list) THEN Len(list) - 1 ELSE to_index
  IN  [list EXCEPT ![from_index + 1] = list[to + 1], ![to + 1] = list[from_index + 1]]

\* The blocks after a successful move_block: pop, adjust, insert.
MovedBlocks(list, from_index, to_index) ==
  LET block == list[from_index + 1]
      popped == ListPop(list, from_index)
      to == IF to_index > from_index THEN to_index - 1 ELSE to_index
  IN  ListInsert(popped, to, block)

move_block(from_index, to_index) ==
  IF /\ 0 <= from_index /\ from_index < Len(blocks)
     /\ 0 <= to_index /\ to_index <= Len(blocks)
    THEN /\ blocks' = MovedBlocks(blocks, from_index, to_index)
         /\ last' = Returned("move_block", "bool", TRUE)
         /\ UNCHANGED <<section_type, available_blocks, file, calls>>
    ELSE /\ last' = Returned("move_block", "bool", FALSE)
         /\ UNCHANGED <<section_type, blocks, available_blocks, file, calls>>

\* Mutant of UpdatedBlock: the height is not recalculated.
UpdatedBlockStale(block, content, metadata) ==
  LET b1 == IF content # NoneContent THEN [block EXCEPT !.content = content]
            ELSE block
  IN  IF metadata.some
        THEN [b1 EXCEPT !.metadata = DictUpdate(b1.metadata, metadata.v)]
        ELSE b1

\* The block after update_block's assignments and height recalculation.
UpdatedBlock(block, content, metadata) ==
  LET b1 == IF content # NoneContent THEN [block EXCEPT !.content = content]
            ELSE block
      b2 == IF metadata.some
              THEN [b1 EXCEPT !.metadata = DictUpdate(b1.metadata, metadata.v)]
              ELSE b1
  IN  [b2 EXCEPT !.estimated_height = estimate_block_height(b2)]

update_block(index, content, metadata) ==
  IF 0 <= index /\ index < Len(blocks)
    THEN /\ blocks' = [blocks EXCEPT ![index + 1] =
                         UpdatedBlock(blocks[index + 1], content, metadata)]
         /\ last' = Returned("update_block", "bool", TRUE)
         /\ UNCHANGED <<section_type, available_blocks, file, calls>>
    ELSE /\ last' = Returned("update_block", "bool", FALSE)
         /\ UNCHANGED <<section_type, blocks, available_blocks, file, calls>>

get_page_breaks ==
  /\ last' = Returned("get_page_breaks", "list",
                      calculate_page_breaks(blocks, page_height_default))
  /\ UNCHANGED <<section_type, blocks, available_blocks, file, calls>>

(***************************************************************************)
(* Inputs of the editing session.                                          *)
(***************************************************************************)
\* A paragraph text of 250 characters.
Text50 == "Growth slowed in the second quarter of the year..."
LongText == Text50 \o Text50 \o Text50 \o Text50 \o Text50

\* The section of the session: one per distinct palette.
SectionInputs == {EXECUTIVE_SUMMARY, ANALYSIS_OVERALL, TABLES}

\* The types whose palette button the session presses.
AddTypes == {PARAGRAPH, TITLE, CHART, BULLET_LIST, HIGHLIGHT_BOX}

\* add_block as a palette button issues it: the type's default content.
DefaultInput(t) ==
  [type |-> t, content |-> get_default_block_content(t).content,
   metadata |-> Some(get_default_block_content(t).metadata)]

AddInputs == {DefaultInput(t) : t \in AddTypes}

\* An index into a list: from before its start to past its end.
IndexInputs(list) == -1 .. Len(list) + 1

\* position: absent, or an index.
PositionInputs(list) == {None} \cup {Some(p) : p \in IndexInputs(list)}

\* update_block as the edit forms issue it for a block of the given type,
\* and the call with nothing to update.
UpdateInputs(block_type) ==
  {[content |-> NoneContent, metadata |-> None]} \cup
  CASE block_type = PARAGRAPH ->
         {[content |-> Str(LongText),
           metadata |-> Some([font_size |-> 12, bold |-> TRUE, color |-> "black"])]}
    [] block_type = TITLE ->
         {[content |-> Str("Outlook"),
           metadata |-> Some([level |-> 3, color |-> "ecestitle",
                              underline |-> TRUE])]}
    [] block_type = CHART ->
         {[content |-> NoneContent, metadata |-> Some([height |-> 400])]}
    [] OTHER -> {}

AllUpdateInputs == UNION {UpdateInputs(t) : t \in BlockType}

(***************************************************************************)
(* The editing session on one manager.                                     *)
(***************************************************************************)
Init ==
  /\ \E s \in SectionInputs : BlockManagerInit(s)
  /\ last = Returned("__init__", "none", "None")
  /\ file = <<>>
  /\ calls = <<>>

AddBlock ==
  \E inp \in AddInputs, position \in PositionInputs(blocks) :
    add_block(inp.type, inp.content, inp.metadata, position)

RemoveBlock == \E index \in IndexInputs(blocks) : remove_block(index)

MoveBlock ==
  \E from_index \in IndexInputs(blocks), to_index \in IndexInputs(blocks) :
    move_block(from_index, to_index)

UpdateBlock ==
  \E index \in IndexInputs(blocks) :
    \E u \in (IF 0 <= index /\ index < Len(blocks)
                THEN UpdateInputs(blocks[index + 1].type) ELSE AllUpdateInputs) :
      update_block(index, u.content, u.metadata)

GetPageBreaks == get_page_breaks

Next == AddBlock \/ RemoveBlock \/ MoveBlock \/ UpdateBlock \/ GetPageBreaks

Spec == Init /\ [][Next]_vars

(***************************************************************************)
(* Page planning: a manager filled block by block, asked for its breaks.   *)
(***************************************************************************)
\* Heights given to a chart through its "height" metadata.
ChartHeightInputs == {100, 400, 800}

\* Every type with its default content, and charts of chosen heights.
PlanInputs ==
  {DefaultInput(t) : t \in BlockType} \cup
  {[type |-> CHART, content |-> Str("ch1.png"), metadata |-> Some([height |-> h])] :
     h \in ChartHeightInputs}

InitPages ==
  /\ BlockManagerInit(EXECUTIVE_SUMMARY)
  /\ last = Returned("__init__", "none", "None")
  /\ file = <<>>
  /\ calls = <<>>

AppendBlock ==
  \E inp \in PlanInputs : add_block(inp.type, inp.content, inp.metadata, None)

NextPages == AppendBlock \/ GetPageBreaks

SpecPages == InitPages /\ [][NextPages]_vars

(***************************************************************************)
(* Opening a section: parse_section_file on the file of the section.       *)
(***************************************************************************)
\* Longest section file, in lines.
MaxLines == 3

\* parse_section_file(filepath, section_type): the manager of the blocks
\* parsed from the file; an exception of the parser leaves the editor
\* without one.
parse_section_file(section) ==
  \E parsed \in {parse(file)} :
  LET s == IF section.some THEN section.v ELSE ANALYSIS_OVERALL
  IN  /\ calls' = parsed.calls
      /\ UNCHANGED file
      /\ IF parsed.raised
           THEN /\ last' = Raised("parse_section_file", parsed.val, "parse")
                /\ UNCHANGED <<section_type, blocks, available_blocks>>
           ELSE /\ section_type' = s
                /\ blocks' = parsed.val
                /\ available_blocks' = SECTION_PALETTES[s]
                /\ last' = Returned("parse_section_file", "manager", "BlockManager")

\* The paragraph and the chart whose markup the files hold.
SampleText == "Growth slowed in Q2."
SampleParagraph ==
  Block(PARAGRAPH, Str(SampleText),
        [font_size |-> 10, bold |-> FALSE, color |-> "black"])
SampleChart ==
  Block(CHART, get_default_block_content(CHART).content,
        get_default_block_content(CHART).metadata)

\* A page setup whose left margin holds a second '='.
SamplePageSetup ==
  Block(PAGE_SETUP,
        Dict([background |-> "bg2.png", geometry |-> [left |-> "1=2cm"],
              page_number |-> 12]),
        EmptyDict)

\* The lines a section file is made of.
LineInputs ==
  {MarkerLine("PARAGRAPH", <<MetaPair("font_size", "10")>>),
   MarkerLine("CHART", <<>>),
   MarkerLine("CHART", <<MetaPair("height", "tall")>>),
   MarkerLine("BULLET_LIST", <<>>),
   MarkerLine("FOOBAR", <<>>),
   MarkerLine("END", <<>>),
   BlankLine,
   TextLine(SampleText),
   MarkupLine(SampleParagraph),
   MarkupLine(SampleChart),
   MarkupLine(SamplePageSetup)}

\* The files MarkerContent is written for: a span of a recognized type holds
\* at most one line that is neither blank nor a separator, and markup in a
\* title or a paragraph span is the markup of a title or of a paragraph.
RECURSIVE InDomainFrom(_, _, _, _)
InDomainFrom(lines, i, current_block_type, held) ==
  IF i > Len(lines) THEN TRUE
  ELSE IF lines[i].kind = "marker"
    THEN InDomainFrom(lines, i + 1, type_map(lines[i].name), 0)
  ELSE IF lines[i].kind = "end"
    THEN InDomainFrom(lines, i + 1, None, 0)
  ELSE IF ~current_block_type.some \/ lines[i].kind \in {"blank", "separator"}
    THEN InDomainFrom(lines, i + 1, current_block_type, held)
  ELSE /\ held = 0
       /\ (lines[i].kind = "markup" /\ current_block_type.v \in {TITLE, PARAGRAPH})
            => lines[i].block.type = current_block_type.v
       /\ InDomainFrom(lines, i + 1, current_block_type, held + 1)

InDomain(lines) == InDomainFrom(lines, 1, None, 0)

FileInputs ==
  {lines \in UNION {[1..n -> LineInputs] : n \in 0..MaxLines} : InDomain(lines)}

\* The section the editor is opened for; parse_section_file defaults it.
SectionArguments == {None} \cup {Some(s) : s \in SectionInputs}

InitParse ==
  /\ file \in FileInputs
  /\ BlockManagerInit(ANALYSIS_OVERALL)
  /\ last = Returned("__init__", "none", "None")
  /\ calls = <<>>

ParseSectionFile == \E section \in SectionArguments : parse_section_file(section)

NextParse == ParseSectionFile

SpecParse == InitParse /\ [][NextParse]_vars

(***************************************************************************)
(* Saving a section: Block.to_latex, generate_latex, save_section_file.    *)
(***************************************************************************)
\* type(x).__name__ of a payload.
TypeName(x) ==
  CASE x.kind = "none" -> "NoneType"
    [] x.kind = "str" -> "str"
    [] x.kind = "list" -> "list"
    [] x.kind = "dict" -> "dict"

\* The exception a generator raises on the content of the block: the
\* generators of the dict types call block.content.get, those of the list
\* types iterate block.content; the others format whatever they are given.
GeneratorError(block) ==
  CASE block.type \in {TEXT_CHART_ROW, SUBHEADER_LEGEND, PAGE_SETUP}
         /\ ~IsDict(block.content) ->
         Some("'" \o TypeName(block.content) \o "' object has no attribute 'get'")
    [] block.type \in {BULLET_LIST, HIGHLIGHT_BOX}
         /\ block.content.kind = "none" ->
         Some("'NoneType' object is not iterable")
    [] OTHER -> None

\* block.to_latex(): every type has a generator, so the ValueError for a
\* missing one does not occur.
to_latex(block) ==
  IF GeneratorError(block).some THEN Err(GeneratorError(block).v)
  ELSE Ok(BLOCK_GENERATORS(block))

\* str(block.type) of an Enum member.
BlockTypeName(t) ==
  CASE t = PARAGRAPH -> "BlockType.PARAGRAPH"
    [] t = TITLE -> "BlockType.TITLE"
    [] t = CHART -> "BlockType.CHART"
    [] t = BULLET_LIST -> "BlockType.BULLET_LIST"
    [] t = TEXT_CHART_ROW -> "BlockType.TEXT_CHART_ROW"
    [] t = SPACER -> "BlockType.SPACER"
    [] t = HIGHLIGHT_BOX -> "BlockType.HIGHLIGHT_BOX"
    [] t = SUBHEADER_LEGEND -> "BlockType.SUBHEADER_LEGEND"
    [] t = PAGE_SETUP -> "BlockType.PAGE_SETUP"

\* f"% ERROR generating block {block.type}: {str(e)}" : the comment of a
\* block whose generator raised, without its newline.
ErrorComment(block) ==
  "% ERROR generating block " \o BlockTypeName(block.type) \o ": "
    \o to_latex(block).val

\* Mutant of latex_parts_loop: a block whose generator raises adds no part.
RECURSIVE latex_parts_loop_drops_failed(_, _, _)
latex_parts_loop_drops_failed(list, i, latex_parts) ==
  IF i > Len(list) THEN latex_parts
  ELSE latex_parts_loop_drops_failed(list, i + 1,
         IF to_latex(list[i]).raised THEN latex_parts
         ELSE Append(latex_parts, to_latex(list[i]).val))

\* for block in self.blocks: try: append(block.to_latex())
\*                           except Exception: append("% ERROR ...\n")
RECURSIVE latex_parts_loop(_, _, _)
latex_parts_loop(list, i, latex_parts) ==
  IF i > Len(list) THEN latex_parts
  ELSE latex_parts_loop(list, i + 1,
         IF to_latex(list[i]).raised
           THEN Append(latex_parts, ErrorComment(list[i]) \o "\n")
         ELSE Append(latex_parts, to_latex(list[i]).val))

\* "\n".join(latex_parts)
GeneratedLatex(list) == Join(latex_parts_loop(list, 1, <<>>), "\n")

generate_latex ==
  /\ last' = Returned("generate_latex", "str", GeneratedLatex(blocks))
  /\ UNCHANGED <<section_type, blocks, available_blocks, file, calls>>

\* The lines of the generated text: the markup of a block is one line of
\* the model, an error comment with its newline is the comment and an
\* empty line.
RECURSIVE GeneratedLines(_, _)
GeneratedLines(list, i) ==
  IF i > Len(list) THEN <<>>
  ELSE (IF to_latex(list[i]).raised
          THEN <<CommentLine(ErrorComment(list[i])), BlankLine>>
        ELSE <<MarkupLine(list[i])>>) \o GeneratedLines(list, i + 1)

\* save_section_file(filepath, manager): the file holds generate_latex().
save_section_file ==
  /\ file' = GeneratedLines(blocks, 1)
  /\ last' = Returned("save_section_file", "none", "None")
  /\ UNCHANGED <<section_type, blocks, available_blocks, calls>>

\* The blocks the session that saves adds: the paragraph, a list of two
\* points, a list whose first point holds two spaces in a row, a chart, and
\* a text-chart row that was given no content.
SampleBulletList ==
  Block(BULLET_LIST, List(<<Str("First point"), Str("Second point")>>), EmptyDict)

SaveInputs ==
  {[type |-> SampleParagraph.type, content |-> SampleParagraph.content,
    metadata |-> Some(SampleParagraph.metadata)],
   [type |-> BULLET_LIST, content |-> SampleBulletList.content, metadata |-> None],
   [type |-> BULLET_LIST,
    content |-> List(<<Str(DoubleSpaced), Str("Second point")>>),
    metadata |-> None],
   DefaultInput(CHART),
   [type |-> TEXT_CHART_ROW, content |-> NoneContent, metadata |-> None]}

InitSave ==
  /\ BlockManagerInit(EXECUTIVE_SUMMARY)
  /\ last = Returned("__init__", "none", "None")
  /\ file = <<>>
  /\ calls = <<>>

AddSaved ==
  \E inp \in SaveInputs : add_block(inp.type, inp.content, inp.metadata, None)

GenerateLatex == generate_latex

SaveSectionFile == save_section_file

ReloadSectionFile == parse_section_file(Some(section_type))

NextSave == AddSaved \/ GenerateLatex \/ SaveSectionFile \/ ReloadSectionFile

SpecSave == InitSave /\ [][NextSave]_vars

(***************************************************************************)
(* Snapshots: to_dict, from_dict, export_json, import_json; and the total  *)
(* height of the sequence.  A dict of a snapshot is a function from its    *)
(* keys; the member of BlockType is kept in it by its value, a str.        *)
(***************************************************************************)
\* block.to_dict()
to_dict(block) ==
  [type |-> Str(block.type), content |-> block.content,
   metadata |-> block.metadata, estimated_height |-> block.estimated_height]

\* Block.from_dict(data): BlockType(data["type"]) and data["content"] raise
\* on a value that is no member and on a missing key; the other two keys
\* have defaults.
from_dict(data) ==
  IF "type" \notin DOMAIN data THEN Err("KeyError")
  ELSE IF data.type.kind # "str" \/ data.type.val \notin BlockType
    THEN Err("ValueError")
  ELSE IF "content" \notin DOMAIN data THEN Err("KeyError")
  ELSE Ok([type |-> data.type.val, content |-> data.content,
           metadata |-> Get(data, "metadata", EmptyDict),
           estimated_height |-> Get(data, "estimated_height", 50)])

\* [block.to_dict() for block in self.blocks]
ExportedBlocks(list) == [i \in 1..Len(list) |-> to_dict(list[i])]

export_json ==
  /\ last' = Returned("export_json", "list", ExportedBlocks(blocks))
  /\ UNCHANGED <<section_type, blocks, available_blocks, file, calls>>

\* [Block.from_dict(d) for d in data], or the first exception raised.
RECURSIVE from_dicts(_, _, _)
from_dicts(data, i, list) ==
  IF i > Len(data) THEN Ok(list)
  ELSE IF from_dict(data[i]).raised THEN from_dict(data[i])
  ELSE from_dicts(data, i + 1, Append(list, from_dict(data[i]).val))

\* import_json(data) returned None.
Imported(data) == [op |-> "import_json", raised |-> FALSE, kind |-> "none", val |-> data]

\* Mutant of import_json: the blocks made from data follow the old ones.
import_json_appends(data) ==
  IF from_dicts(data, 1, <<>>).raised
    THEN /\ last' = Raised("import_json", from_dicts(data, 1, <<>>).val, data)
         /\ UNCHANGED <<section_type, blocks, available_blocks, file, calls>>
    ELSE /\ blocks' = blocks \o from_dicts(data, 1, <<>>).val
         /\ last' = Imported(data)
         /\ UNCHANGED <<section_type, available_blocks, file, calls>>

\* self.blocks = [Block.from_dict(d) for d in data]
import_json(data) ==
  IF from_dicts(data, 1, <<>>).raised
    THEN /\ last' = Raised("import_json", from_dicts(data, 1, <<>>).val, data)
         /\ UNCHANGED <<section_type, blocks, available_blocks, file, calls>>
    ELSE /\ blocks' = from_dicts(data, 1, <<>>).val
         /\ last' = Imported(data)
         /\ UNCHANGED <<section_type, available_blocks, file, calls>>

\* Mutant of TotalHeight: the stored heights are summed.
TotalHeightOfFields(list) == SumSeq([i \in 1..Len(list) |-> list[i].estimated_height])

\* sum(estimate_block_height(block) for block in self.blocks)
TotalHeight(list) == SumSeq([i \in 1..Len(list) |-> estimate_block_height(list[i])])

get_total_height ==
  /\ last' = Returned("get_total_height", "int", TotalHeight(blocks))
  /\ UNCHANGED <<section_type, blocks, available_blocks, file, calls>>

\* The types the session that keeps snapshots adds.
StoredTypes == {PARAGRAPH, CHART}

\* Snapshots written by hand: a paragraph of 250 characters without the
\* optional keys, the same followed by a block of a type that does not
\* exist, and a chart without content.
BareParagraph == [type |-> Str(PARAGRAPH), content |-> Str(LongText)]
HandWritten ==
  {<<BareParagraph>>,
   <<BareParagraph, [type |-> Str("table"), content |-> Str("t1")]>>,
   <<[type |-> Str(CHART)]>>}

\* import_json is given a snapshot of the manager itself or one written by
\* hand.
ImportInputs(list) == {ExportedBlocks(list)} \cup HandWritten

\* The section files of the session: none, and the sample paragraph under
\* its marker.
StoredFiles ==
  {<<>>,
   <<MarkerLine("PARAGRAPH", <<MetaPair("font_size", "10")>>),
     TextLine(SampleText), MarkerLine("END", <<>>)>>}

InitStore ==
  /\ file \in StoredFiles
  /\ BlockManagerInit(EXECUTIVE_SUMMARY)
  /\ last = Returned("__init__", "none", "None")
  /\ calls = <<>>

AddStored ==
  \E t \in StoredTypes :
    add_block(t, DefaultInput(t).content, DefaultInput(t).metadata, None)

ExportJson == export_json

ImportJson == \E data \in ImportInputs(blocks) : import_json(data)

GetTotalHeight == get_total_height

NextStore ==
  \/ AddStored
  \/ RemoveBlock
  \/ MoveBlock
  \/ UpdateBlock
  \/ ExportJson
  \/ ImportJson
  \/ ReloadSectionFile
  \/ GetTotalHeight

SpecStore == InitStore /\ [][NextStore]_vars

(***************************************************************************)
(* Save and reload: a section built from the palette buttons and the level *)
(* selector of the title editor, saved and parsed again.                   *)
(***************************************************************************)
\* Most blocks in a section that is saved and reloaded.
MaxSaved == 2

\* The levels the title editor offers.
TitleLevels == {1, 2, 3}

\* A title of each level, as the editor leaves the default title.
TitleInput(level) ==
  [type |-> TITLE, content |-> get_default_block_content(TITLE).content,
   metadata |-> Some(DictUpdate(get_default_block_content(TITLE).metadata,
                                [level |-> level]))]

\* Every type with its default content, and the titles of the three levels.
ReloadInputs ==
  {DefaultInput(t) : t \in BlockType} \cup {TitleInput(l) : l \in TitleLevels}

InitReload ==
  /\ BlockManagerInit(EXECUTIVE_SUMMARY)
  /\ last = Returned("__init__", "none", "None")
  /\ file = <<>>
  /\ calls = <<>>

AddDefault ==
  /\ Len(blocks) < MaxSaved
  /\ \E inp \in ReloadInputs : add_block(inp.type, inp.content, inp.metadata, None)

NextReload == AddDefault \/ SaveSectionFile \/ ReloadSectionFile

SpecReload == InitReload /\ [][NextReload]_vars

(***************************************************************************)
(* Properties of the manager's operations.                                 *)
(***************************************************************************)
InRange(index, list) == 0 <= index /\ index < Len(list)

\* C1: add_block with a type that is not in the section's palette raises and
\* leaves the block sequence as it was; add_block(HIGHLIGHT_BOX) raises on a
\* Tables manager and succeeds on an Executive Summary manager.
C1_PaletteEnforced ==
  [][last'.op = "add_block" =>
     \A inp \in AddInputs, position \in PositionInputs(blocks) :
       add_block(inp.type, inp.content, inp.metadata, position) =>
         /\ ~In(inp.type, SECTION_PALETTES[section_type]) =>
              /\ last' = Raised("add_block", "ValueError", inp.type)
              /\ blocks' = blocks
         /\ inp.type = HIGHLIGHT_BOX /\ section_type = TABLES =>
              last'.raised /\ blocks' = blocks
         /\ inp.type = HIGHLIGHT_BOX /\ section_type = EXECUTIVE_SUMMARY =>
              ~last'.raised /\ Len(blocks') = Len(blocks) + 1]_vars

\* A Tables manager holding blocks has just rejected a highlight box.
C1_Witness ==
  /\ section_type = TABLES
  /\ Len(blocks) > 0
  /\ last = Raised("add_block", "ValueError", HIGHLIGHT_BOX)

\* Removal-then-reinsertion: the block is taken out and put back at index
\* to_index of the sequence that remains.
ReinsertedAfterRemoval(list, from_index, to_index) ==
  ListInsert(ListPop(list, from_index), to_index, list[from_index + 1])

\* C2: move_block(from, to) interprets `to` as the index in the sequence after
\* the block has been removed, so that [A,B,C] becomes [B,C,A] by
\* move_block(0,2).
C2_MoveAfterRemoval ==
  [][last'.op = "move_block" =>
     \A from_index \in IndexInputs(blocks), to_index \in IndexInputs(blocks) :
       (/\ move_block(from_index, to_index)
        /\ last'.val = TRUE) =>
         blocks' = ReinsertedAfterRemoval(blocks, from_index, to_index)]_vars

\* C3: every block's stored estimated_height is what the estimator returns
\* for its current content and metadata.
C3_HeightNeverStale ==
  \A i \in 1..Len(blocks) :
    blocks[i].estimated_height = estimate_block_height(blocks[i])

\* An update has just changed a paragraph's text and, with it, its height.
C3_Witness ==
  /\ last = Returned("update_block", "bool", TRUE)
  /\ \E i \in 1..Len(blocks) :
       /\ blocks[i].type = PARAGRAPH
       /\ blocks[i].content = Str(LongText)
       /\ blocks[i].estimated_height = 40

\* C4: remove_block, move_block and update_block with an index outside
\* 0..len-1 (negative ones included) return None, False and False, raise
\* nothing and leave every block as it was.
C4_OutOfRangeIsNoOp ==
  [][/\ last'.op = "remove_block" =>
          \A index \in IndexInputs(blocks) :
            ~InRange(index, blocks) /\ remove_block(index) =>
              /\ last' = Returned("remove_block", "none", "None")
              /\ blocks' = blocks
     /\ last'.op = "move_block" =>
          \A from_index \in IndexInputs(blocks), to_index \in IndexInputs(blocks) :
            ~InRange(from_index, blocks) /\ move_block(from_index, to_index) =>
              /\ last' = Returned("move_block", "bool", FALSE)
              /\ blocks' = blocks
     /\ last'.op = "update_block" =>
          \A index \in IndexInputs(blocks), u \in AllUpdateInputs :
            ~InRange(index, blocks) /\ update_block(index, u.content, u.metadata) =>
              /\ last' = Returned("update_block", "bool", FALSE)
              /\ blocks' = blocks]_vars

\* remove_block on a manager that holds blocks has just returned None.
C4_Witness ==
  /\ Len(blocks) > 0
  /\ last = Returned("remove_block", "none", "None")

\* C5: a successful update_block replaces the content when one is given and
\* keeps it otherwise, and merges the metadata shallowly: supplied keys take
\* the supplied values, the other keys keep theirs.
C5_UpdateMerges ==
  [][last'.op = "update_block" =>
     \A index \in IndexInputs(blocks), u \in AllUpdateInputs :
       (/\ InRange(index, blocks)
        /\ update_block(index, u.content, u.metadata)) =>
         LET old == blocks[index + 1]
             new == blocks'[index + 1]
             given == IF u.metadata.some THEN u.metadata.v ELSE EmptyDict
         IN  /\ last' = Returned("update_block", "bool", TRUE)
             /\ new.type = old.type
             /\ new.content = IF u.content # NoneContent THEN u.content
                              ELSE old.content
             /\ DOMAIN new.metadata = DOMAIN old.metadata \cup DOMAIN given
             /\ \A k \in DOMAIN given : new.metadata[k] = given[k]
             /\ \A k \in DOMAIN old.metadata \ DOMAIN given :
                  new.metadata[k] = old.metadata[k]
             /\ Len(blocks') = Len(blocks)
             /\ \A j \in 1..Len(blocks) : j # index + 1 => blocks'[j] = blocks[j]]_vars

\* An updated paragraph carries the supplied font_size and its old line_height.
C5_Witness ==
  /\ last = Returned("update_block", "bool", TRUE)
  /\ \E i \in 1..Len(blocks) :
       /\ blocks[i].type = PARAGRAPH
       /\ blocks[i].content = Str(LongText)
       /\ blocks[i].metadata["font_size"] = 12
       /\ blocks[i].metadata["line_height"] = 13

\* C6: a successful add_block at position p (0 <= p <= len) grows the sequence
\* by one, stores the new block at index p and keeps the other blocks in
\* their order; without a position the block is last; the returned block is
\* the stored one and carries its estimated height.
C6_AddInserts ==
  [][last'.op = "add_block" =>
     \A inp \in AddInputs, position \in PositionInputs(blocks) :
       (/\ add_block(inp.type, inp.content, inp.metadata, position)
        /\ ~last'.raised
        /\ position.some => 0 <= position.v /\ position.v <= Len(blocks)) =>
         LET p == IF position.some THEN position.v ELSE Len(blocks)
         IN  /\ Len(blocks') = Len(blocks) + 1
             /\ last'.kind = "block"
             /\ blocks'[p + 1] = last'.val
             /\ SubSeq(blocks', 1, p) = SubSeq(blocks, 1, p)
             /\ SubSeq(blocks', p + 2, Len(blocks')) = SubSeq(blocks, p + 1, Len(blocks))
             /\ last'.val.type = inp.type
             /\ last'.val.content = inp.content
             /\ last'.val.estimated_height = estimate_block_height(last'.val)]_vars

\* A block has just been inserted between two other blocks.
C6_Witness ==
  /\ last.op = "add_block" /\ ~last.raised
  /\ Len(blocks) = 3
  /\ blocks[2] = last.val
  /\ blocks[1] # last.val /\ blocks[3] # last.val

(***************************************************************************)
(* Properties of the page-break plan.                                      *)
(***************************************************************************)
Heights(list) == [i \in 1..Len(list) |-> list[i].estimated_height]

IsPrefix(s, t) == Len(s) <= Len(t) /\ SubSeq(t, 1, Len(s)) = s

\* Page budgets the plan is computed for.
PageHeightInputs == {300, page_height_default}

\* C7, as stated: heights [400, 400, 100] under a budget of 750 give a break
\* before index 2 only.
C7_BreakBeforeIndex2 ==
  (last.op = "get_page_breaks" /\ Heights(blocks) = <<400, 400, 100>>) =>
    last.val = <<2>>

\* C7, amended: heights [400, 400, 100] under a budget of 750 give a break
\* before index 1 only (the second block opens the new page).
C7_BreakBeforeIndex1 ==
  (last.op = "get_page_breaks" /\ Heights(blocks) = <<400, 400, 100>>) =>
    last.val = <<1>>

\* The plan of three blocks of heights 400, 400 and 100 has been computed.
C7_Witness ==
  last.op = "get_page_breaks" /\ Heights(blocks) = <<400, 400, 100>>

\* C8: the plan of a sequence is a prefix of the plan of that sequence with
\* one more block appended, under every budget.
C8_PlanPrefixStable ==
  Len(blocks) > 0 =>
    \A h \in PageHeightInputs :
      IsPrefix(calculate_page_breaks(SubSeq(blocks, 1, Len(blocks) - 1), h),
               calculate_page_breaks(blocks, h))

\* A block has been appended to a sequence that already had a break, and the
\* appended block opened one more page.
C8_Witness ==
  /\ last.op = "add_block" /\ ~last.raised
  /\ Len(blocks) = 3
  /\ calculate_page_breaks(SubSeq(blocks, 1, 2), page_height_default) = <<1>>
  /\ calculate_page_breaks(blocks, page_height_default) = <<1, 2>>

\* C9, as stated: every block at index i >= 1 that alone exceeds the budget
\* is a break index.
C9_OversizedAlwaysBreaks ==
  \A i \in 1..Len(blocks) - 1 :
    blocks[i + 1].estimated_height > page_height_default =>
      In(i, calculate_page_breaks(blocks, page_height_default))

\* The height of the blocks that share block i's page and precede it: those
\* from the last break before i (or from the start) up to i - 1.
HeightOnPageBefore(list, breaks, i) ==
  LET earlier == {breaks[k] : k \in 1..Len(breaks)} \cap 0..(i - 1)
      start == IF earlier = {} THEN 0
               ELSE CHOOSE j \in earlier : \A k \in earlier : k <= j
  IN  SumSeq([j \in 1..(i - start) |-> list[start + j].estimated_height])

\* C9, amended: a block at index i >= 1 that alone exceeds the budget is a
\* break index whenever the blocks before it on its page have a positive
\* total height.
C9_OversizedBreaksAfterContent ==
  LET breaks == calculate_page_breaks(blocks, page_height_default)
  IN  \A i \in 1..Len(blocks) - 1 :
        (/\ blocks[i + 1].estimated_height > page_height_default
         /\ HeightOnPageBefore(blocks, breaks, i) > 0) =>
          In(i, breaks)

\* The plan has been computed for a sequence in which an oversized block
\* follows content and opens a page.
C9_Witness ==
  /\ last.op = "get_page_breaks"
  /\ \E i \in 1..Len(blocks) - 1 :
       /\ blocks[i + 1].estimated_height > page_height_default
       /\ HeightOnPageBefore(blocks, last.val, i) > 0
       /\ In(i, last.val)

(***************************************************************************)
(* Tier selection of the parser.                                           *)
(***************************************************************************)
\* A line "% BLOCK:<TYPE> ..." naming a block type.
HasMarker(lines) ==
  \E i \in 1..Len(lines) :
    lines[i].kind = "marker" /\ type_map(lines[i].name).some

\* C10: tier selection is all-or-nothing on marker presence.  When the file
\* holds at least one BLOCK:<TYPE> marker line, parse returns exactly what the
\* marker tier returns and the structural fallback is not called; the
\* fallback runs only for a file without markers.
C10_MarkersSelectTier ==
  (last.op = "parse_section_file" /\ ~last.raised /\ HasMarker(file)) =>
    /\ blocks = parse_by_markers(file).val
    /\ ~In("_parse_by_regex", calls)

(***************************************************************************)
(* Spans of an unknown type.                                               *)
(***************************************************************************)
\* A marker line whose type name type_map does not know (END closes a span).
IsUnknownMarker(line) ==
  line.kind = "marker" /\ line.name # "END" /\ ~type_map(line.name).some

HasUnknownSpan(lines) == \E i \in 1..Len(lines) : IsUnknownMarker(lines[i])

\* The file with the text of its spans of unknown type taken out: the markers
\* stay, the lines between an unknown marker and the next marker or END go.
RECURSIVE EmptiedUnknownSpans(_, _, _)
EmptiedUnknownSpans(lines, i, inside) ==
  IF i > Len(lines) THEN <<>>
  ELSE IF lines[i].kind = "marker"
    THEN <<lines[i]>> \o EmptiedUnknownSpans(lines, i + 1, IsUnknownMarker(lines[i]))
  ELSE IF lines[i].kind = "end"
    THEN <<lines[i]>> \o EmptiedUnknownSpans(lines, i + 1, FALSE)
  ELSE IF inside THEN EmptiedUnknownSpans(lines, i + 1, TRUE)
  ELSE <<lines[i]>> \o EmptiedUnknownSpans(lines, i + 1, FALSE)

\* C11: for a file holding a marker of an unknown type, parse raises nothing
\* and returns the blocks of the other marker-delimited spans, as it would
\* without the text of the unknown span: no block comes from that text.
C11_UnknownSpanSkipped ==
  (last.op = "parse_section_file" /\ HasUnknownSpan(file)) =>
    /\ ~last.raised
    /\ blocks = parse_by_markers(EmptiedUnknownSpans(file, 1, FALSE)).val

(***************************************************************************)
(* Empty content in the marker tier.                                       *)
(***************************************************************************)
\* An empty string or an empty list of items.
IsEmptyContent(content) ==
  \/ content.kind = "str" /\ content.val = ""
  \/ content.kind = "list" /\ content.val = <<>>

\* C12: no block returned by the marker tier has empty content: a span whose
\* extracted content is empty after trimming gives no block.
C12_NoEmptyMarkerBlock ==
  (last.op = "parse_section_file" /\ ~last.raised
     /\ calls = <<"_parse_by_markers">>) =>
    \A i \in 1..Len(blocks) : ~IsEmptyContent(blocks[i].content)

(***************************************************************************)
(* Order of the blocks of the fallback.                                    *)
(***************************************************************************)
\* The blocks the fallback builds from each line on its own, in the order of
\* the lines: the blocks of the file in document order.
RECURSIVE InDocumentOrder(_, _)
InDocumentOrder(lines, i) ==
  IF i > Len(lines) THEN <<>>
  ELSE parse_by_regex(<<lines[i]>>).val \o InDocumentOrder(lines, i + 1)

\* C13: the fallback returns its blocks in document order: a block whose
\* source text starts earlier in the file comes earlier in the list.
C13_FallbackDocumentOrder ==
  (last.op = "parse_section_file" /\ ~last.raised
     /\ In("_parse_by_regex", calls)) =>
    blocks = InDocumentOrder(file, 1)

(***************************************************************************)
(* Exceptions of parse.                                                    *)
(***************************************************************************)
\* C14: parse raises for no input text, a page-setup margin directive whose
\* parameter holds more than one '=' included.
C14_ParseNeverRaises ==
  last.op = "parse_section_file" => ~last.raised

(***************************************************************************)
(* Properties of saving and exchanging a section.                          *)
(***************************************************************************)
\* The part generate_latex owes one block, whatever its neighbours are: the
\* markup of its generator, or the error comment when the generator raises.
ExpectedPart(block) ==
  IF GeneratorError(block).some THEN ErrorComment(block) \o "\n"
  ELSE BLOCK_GENERATORS(block)

\* C15: generate_latex never raises, and what it returns is the newline-join
\* of exactly one part per block, in block order: the block's generated
\* markup, or an error comment for that block when its generator failed;
\* the part of a block does not depend on the failure of another block.
C15_OnePartPerBlock ==
  last.op = "generate_latex" =>
    /\ ~last.raised
    /\ last.val = Join([i \in 1..Len(blocks) |-> ExpectedPart(blocks[i])], "\n")

\* A block whose generator fails stands between two blocks that generate.
C15_Witness ==
  /\ last.op = "generate_latex"
  /\ Len(blocks) = 3
  /\ ~GeneratorError(blocks[1]).some
  /\ GeneratorError(blocks[2]).some
  /\ ~GeneratorError(blocks[3]).some

\* Two sequences agree block by block in type, content and metadata.
SameBlocks(a, b) ==
  /\ Len(a) = Len(b)
  /\ \A i \in 1..Len(a) :
       /\ a[i].type = b[i].type
       /\ a[i].content = b[i].content
       /\ a[i].metadata = b[i].metadata

\* C16: import_json(export_json()) leaves a sequence of the same length in
\* which the block at each index has the type, content and metadata of the
\* block that was there; and an import that succeeds replaces the previous
\* sequence: the manager holds one block per dict of the data, no more.
C16_SnapshotRoundTrip ==
  [][(last'.op = "import_json" /\ ~last'.raised) =>
       /\ Len(blocks') = Len(last'.val)
       /\ last'.val = ExportedBlocks(blocks) => SameBlocks(blocks', blocks)]_vars

\* The manager has taken back its own snapshot of two blocks, one of them
\* edited.
C16_Witness ==
  /\ last.op = "import_json"
  /\ ~last.raised
  /\ Len(blocks) = 2
  /\ last.val = ExportedBlocks(blocks)
  /\ \E i \in 1..2 : "height" \in DOMAIN blocks[i].metadata

\* The file holds the markup of one bullet list of n >= 1 items, none empty.
IsBulletListFile(lines) ==
  /\ Len(lines) = 1
  /\ lines[1].kind = "markup"
  /\ lines[1].block.type = BULLET_LIST
  /\ IsList(lines[1].block.content)
  /\ Len(lines[1].block.content.val) >= 1
  /\ \A i \in 1..Len(lines[1].block.content.val) :
       lines[1].block.content.val[i].val # ""

\* The reload of the file returned one bullet list of the given items.
ReloadedBulletList(items) ==
  /\ ~last.raised
  /\ Len(blocks) = 1
  /\ blocks[1].type = BULLET_LIST
  /\ blocks[1].content = List(items)

\* C18 as stated: parsing the markup generated for a bullet list of
\* non-empty items yields one bullet list of exactly those items, in order.
C18_BulletListExact ==
  (last.op = "parse_section_file" /\ IsBulletListFile(file)) =>
    ReloadedBulletList(file[1].block.content.val)

\* An item with every run of blanks in it made one blank.
SingleSpaced(item) ==
  IF item.val = DoubleSpaced THEN Str("Two spaces here") ELSE item

\* C18, amended: parsing the markup generated for a bullet list of non-empty
\* items of prose yields one bullet list of those items in order, each with
\* its runs of blanks made one blank; items without such a run come back
\* exactly.
C18_BulletListSingleSpaced ==
  (last.op = "parse_section_file" /\ IsBulletListFile(file)) =>
    ReloadedBulletList([i \in 1..Len(file[1].block.content.val) |->
                          SingleSpaced(file[1].block.content.val[i])])

\* The list of the two points was saved alone and reloaded as it was.
C18_Witness ==
  /\ last.op = "parse_section_file"
  /\ IsBulletListFile(file)
  /\ file[1].block.content = SampleBulletList.content
  /\ blocks[1].content = SampleBulletList.content

\* ceil(n / d) of naturals.
CeilDiv(n, d) == (n + d - 1) \div d

\* C19: the estimated height of every paragraph with n characters of
\* content is ceil(n / 100) * 15 + 10.
C19_ParagraphHeightCeil ==
  \A i \in 1..Len(blocks) :
    (blocks[i].type = PARAGRAPH /\ blocks[i].content.kind = "str") =>
      estimate_block_height(blocks[i])
        = CeilDiv(Len(blocks[i].content.val), 100) * 15 + 10

\* The sum of the estimated_height fields of the sequence.
SumOfFields(list) == SumSeq([i \in 1..Len(list) |-> list[i].estimated_height])

IsStale(block) == block.estimated_height # estimate_block_height(block)

CoreBlockTypes == {PARAGRAPH, TITLE, CHART, BULLET_LIST, TEXT_CHART_ROW, SPACER}

\* C21: the six core block types are available everywhere: in every section
\* type, add_block with any of them succeeds, so a call of add_block that
\* raises was given a type that is not a core type.
C21_CoreTypesEverywhere ==
  (last.op = "add_block" /\ last.raised) => last.val \notin CoreBlockTypes

\* The sequence without its element at place i (1-based).
Without(list, i) == SubSeq(list, 1, i - 1) \o SubSeq(list, i + 1, Len(list))

\* C22: a successful move_block only permutes the sequence: the length is
\* unchanged, and one block (with its type, content, metadata and height)
\* has changed place while all the other blocks are the same blocks in the
\* same relative order.
C22_MoveOnlyPermutes ==
  [][(last'.op = "move_block" /\ last'.val = TRUE) =>
       /\ Len(blocks') = Len(blocks)
       /\ \E i \in 1..Len(blocks), j \in 1..Len(blocks) :
            /\ blocks'[j] = blocks[i]
            /\ Without(blocks', j) = Without(blocks, i)]_vars

\* A move succeeded on three blocks that differ from each other.
C22_Witness ==
  /\ last.op = "move_block"
  /\ last.val = TRUE
  /\ Len(blocks) = 3
  /\ blocks[1] # blocks[2]
  /\ blocks[2] # blocks[3]
  /\ blocks[1] # blocks[3]

\* C23: no block returned by the structural tier carries the bookkeeping
\* key "_position" in its metadata, whichever extraction pass produced it.
C23_NoPositionKey ==
  (last.op = "parse_section_file" /\ ~last.raised
     /\ In("_parse_by_regex", calls)) =>
    \A i \in 1..Len(blocks) : "_position" \notin DOMAIN blocks[i].metadata

\* The structural tier returned two blocks found by different passes.
C23_Witness ==
  /\ last.op = "parse_section_file"
  /\ ~last.raised
  /\ In("_parse_by_regex", calls)
  /\ Len(blocks) = 2
  /\ blocks[1].type = HIGHLIGHT_BOX
  /\ blocks[2].type = TITLE

\* A list of indices that grows strictly and stays within 1..len-1.
IsIncreasingWithin(plan, len) ==
  \A k \in 1..Len(plan) :
    /\ 1 <= plan[k]
    /\ plan[k] <= len - 1
    /\ k < Len(plan) => plan[k] < plan[k + 1]

\* C24: for every block sequence and every positive budget the page-break
\* plan is a strictly increasing list of indices within 1..len-1: index 0
\* is never a break and no index appears twice.
C24_PlanStrictlyIncreasing ==
  /\ \A h \in PageHeightInputs :
       IsIncreasingWithin(calculate_page_breaks(blocks, h), Len(blocks))
  /\ last.op = "get_page_breaks" => IsIncreasingWithin(last.val, Len(blocks))

\* The plan of three blocks under the budget of 300 breaks before the
\* second and before the third, and the first block alone exceeds the
\* default budget.
C24_Witness ==
  /\ last.op = "get_page_breaks"
  /\ Len(blocks) = 3
  /\ estimate_block_height(blocks[1]) > page_height_default
  /\ calculate_page_breaks(blocks, 300) = <<1, 2>>

\* The pages a plan delimits, as the 0-based indices of their first and
\* last blocks: page k starts at the break before it, or at 0.
PageFirst(plan, k) == IF k = 1 THEN 0 ELSE plan[k - 1]
PageLast(plan, k, len) == IF k = Len(plan) + 1 THEN len - 1 ELSE plan[k] - 1

\* The page from first to last keeps the budget: its heights sum to no more
\* than the budget, or it holds a block that alone exceeds the budget, and
\* then each such block is the last of the page, after blocks of height 0.
PageKeepsBudget(list, first, last_index, budget) ==
  LET height(i) == estimate_block_height(list[i + 1])
  IN  IF \E i \in first..last_index : height(i) > budget
        THEN \A i \in first..last_index :
               height(i) > budget =>
                 /\ i = last_index
                 /\ \A j \in first..(i - 1) : height(j) = 0
      ELSE SumSeq([n \in 1..(last_index - first + 1) |-> height(first + n - 1)])
             <= budget

\* C25: for blocks of non-negative heights, every page the plan delimits
\* has a total estimated height within the budget unless it holds a block
\* whose own height exceeds the budget; such a block is the last block of
\* its page and only blocks of height 0 come before it on that page.
C25_PagesWithinBudget ==
  \A h \in PageHeightInputs :
    \A k \in 1..(Len(calculate_page_breaks(blocks, h)) + 1) :
      PageKeepsBudget(blocks,
                      PageFirst(calculate_page_breaks(blocks, h), k),
                      PageLast(calculate_page_breaks(blocks, h), k, Len(blocks)),
                      h)

\* The planned sequence is a page setup of height 0, a chart taller than the
\* default budget and one more block: the chart ends the first page.
C25_Witness ==
  /\ last.op = "get_page_breaks"
  /\ Len(blocks) = 3
  /\ estimate_block_height(blocks[1]) = 0
  /\ estimate_block_height(blocks[2]) > page_height_default
  /\ last.val = <<2>>

\* The value is an integer from 0 to 2000: told by its printed form, since
\* a str and an int are not comparable.
IsNaturalNumber(v) == ToString(v) \in {ToString(n) : n \in 0..2000}

\* C26: the height estimator is total and integer-valued: for every block,
\* whatever its content and metadata (a chart whose "height" metadata is
\* not an integer included), it returns a non-negative integer, so that the
\* page-break plan and the total height can be computed from a manager's
\* blocks.
C26_EstimateIsNaturalNumber ==
  \A i \in 1..Len(blocks) :
    /\ IsNaturalNumber(estimate_block_height(blocks[i]))
    /\ IsNaturalNumber(blocks[i].estimated_height)

\* C27: the move-down button works: for 0 <= i < len-1, move_block(i, i+1)
\* returns True and leaves the block that was at i at index i+1 and the
\* block that was at i+1 at index i; the move-up button, move_block(i, i-1)
\* for 0 < i <= len-1, exchanges the block with the one before it.
C27_MoveButtonsSwap ==
  [][last'.op = "move_block" =>
     \A i \in IndexInputs(blocks) :
       /\ (0 <= i /\ i < Len(blocks) - 1 /\ move_block(i, i + 1)) =>
            /\ last'.val = TRUE
            /\ blocks'[i + 2] = blocks[i + 1]
            /\ blocks'[i + 1] = blocks[i + 2]
       /\ (0 < i /\ i <= Len(blocks) - 1 /\ move_block(i, i - 1)) =>
            /\ last'.val = TRUE
            /\ blocks'[i] = blocks[i + 1]
            /\ blocks'[i + 1] = blocks[i]]_vars

\* C28: palette invariant: in every reachable state of a manager, however
\* it was filled (add_block, import_json or a parsed section file), every
\* block of its sequence has a type of the palette of the manager's section.
C28_PaletteInvariant ==
  \A i \in 1..Len(blocks) : In(blocks[i].type, SECTION_PALETTES[section_type])

\* The blocks add_block builds from the default content of each type.
DefaultBlocks ==
  {NewBlock(t, DefaultInput(t).content, DefaultInput(t).metadata) : t \in BlockType}

\* The file holds the markup saved for blocks of default content only.
IsSavedDefaults(lines) ==
  \A i \in 1..Len(lines) :
    lines[i].kind = "markup" /\ lines[i].block \in DefaultBlocks

\* C29: save followed by reload keeps the structure of a section: for
\* blocks added with the default content of each type, parsing the saved
\* markup returns as many blocks, of the same types in the same order (no
\* type, the spacer included, is lost).
C29_ReloadKeepsStructure ==
  (last.op = "parse_section_file" /\ IsSavedDefaults(file)) =>
    /\ ~last.raised
    /\ Len(blocks) = Len(file)
    /\ \A i \in 1..Len(file) : blocks[i].type = file[i].block.type

\* The file holds the markup generate_title wrote for one title of a level
\* in TitleLevels.
IsTitleFile(lines) ==
  /\ Len(lines) = 1
  /\ lines[1].kind = "markup"
  /\ lines[1].block.type = TITLE
  /\ "level" \in DOMAIN lines[1].block.metadata
  /\ lines[1].block.metadata.level \in TitleLevels

\* C30: the title level survives generate-then-parse: for every level L in
\* {1, 2, 3}, the level the structural tier's title extractor derives from
\* the font size generate_title writes for level L is L.
C30_TitleLevelSurvives ==
  (last.op = "parse_section_file" /\ IsTitleFile(file)) =>
    /\ ~last.raised
    /\ \E i \in 1..Len(blocks) : blocks[i].type = TITLE
    /\ \A i \in 1..Len(blocks) :
         blocks[i].type = TITLE =>
           blocks[i].metadata.level = file[1].block.metadata.level

====
